---------------------------- MODULE Spec2Model ----------------------------
(***************************************************************************)
(* A model of the incremental re-rendering engine of the Cartesian         *)
(* drawing board: the dirty-region functions of dirtyRegions.js, the       *)
(* tick of CartesianRenderer (Renderer.js) and the tick of                 *)
(* CanvasFrameworkBuilder (canvasFrameworkBuilder.js).                     *)
(*                                                                         *)
(* The repository holds two independent applications, CartesianRenderer    *)
(* and CanvasFrameworkBuilder.  A behaviour of Spec runs one of them; the  *)
(* variable app says which.  The pure region functions are exercised by    *)
(* SpecMerge, whose initial states draw the input list.                    *)
(*                                                                         *)
(* Regions are records [x, y, width, height].  The region functions only   *)
(* add, subtract and compare coordinates, so they are invariant under a    *)
(* translation of the plane; the inputs are drawn from the square          *)
(* 0..MaxCoord without loss of generality for negative positions.          *)
(***************************************************************************)
EXTENDS Integers, Sequences, FiniteSets, TLC

(***************************************************************************)
(* Bounds of the model.                                                    *)
(***************************************************************************)
\* far edge of the square the input regions of SpecMerge are drawn from
MaxCoord == 2
\* longest input list of SpecMerge
MaxRegions == 3

\* most elements CartesianRenderer is given
MaxElements == 2
\* longest list of pending dirty regions
MaxDirty == 2
\* most layers CanvasFrameworkBuilder is given
MaxLayers == 1
\* wheel steps whose zoom and view are exact at the resolution 10^-MaxZoomSteps px
MaxZoomSteps == 1
\* farthest pan of the view, in px, in each direction
MaxPan == 1
\* blur events of the overlays in one run
MaxTimers == 3

VARIABLES
    \* ---- SpecMerge: the pure region functions ----
    mpc,            \* "input", "merged", "remerged", "overlap", "combined"
    regions,        \* the input list handed to mergeRegions
    merged,         \* mergeRegions(regions), dirtyRegions.js
    remerged,       \* mergeRegions(merged)
    builderMerged,  \* CanvasFrameworkBuilder.mergeRegions(regions)
    overlap,        \* regionsOverlap(regions[1], regions[2])
    combined,       \* combineRegions(regions[1], regions[2])
    passes,         \* the passes of the do-while loop of mergeRegions(regions)
    objects,        \* the objects and arrays after mergeRegions(regions)
    overlapCopies,  \* regionsOverlap(regions[1], regions[2]) by the other three copies
    \* ---- Spec: the application that runs ----
    app,            \* "renderer" (CartesianRenderer) or "builder" (CanvasFrameworkBuilder)
    \* fields both classes have
    dirtyRegions,   \* this.dirtyRegions
    fullRedraw,     \* this.fullRedraw
    framesPending,  \* animation-frame callbacks requested and not yet run
    \* ---- CartesianRenderer ----
    constructed,    \* the constructor has returned
    animationFrameId, \* this.animationFrameId: NoFrame (undefined / null), "frame" (the id
                    \* of a frame requested and not yet run) or "fired" (the id of
                    \* a frame that has run)
    canvas,         \* [width, height] of this.canvas
    elements,       \* this.elements, back to front
    nextElementId,  \* this.nextElementId
    editingElement, \* id of this.editingElement, or NoElement
    selectedElement,\* id of this.selectedElement, or NoElement
    overlays,       \* ids of the elements that have a textarea.edit-overlay in the document
    editValue,      \* textarea.value of the overlay
    \* ---- CanvasFrameworkBuilder ----
    dpr,            \* this.dpr = window.devicePixelRatio
    inner,          \* [width, height]: window.innerWidth, window.innerHeight
    canvasApp,      \* the page has set window.canvasApp to the builder
    layers,         \* this.layers
    viewX, viewY,   \* this.viewX, this.viewY, in units of 1/Scale px
    zoom,           \* this.zoom, in units of 1/Scale
    isDragging,     \* this.isDragging
    lastX, lastY,   \* this.lastX, this.lastY (client px)
    \* ---- CartesianRenderer: the pen tool ----
    currentTool,    \* this.currentTool: "select" or "pen"
    bezierDrawingState, \* "idle", "definingP1", "p1Defined", "definingP2"
    currentCurvePoints, \* this.currentCurvePoints: [p0, p1, p3], Cartesian, doubled
    currentMousePosCartesian, \* this.currentMousePosCartesian, doubled, or NoPoint
    penError,       \* the last mouse handler run with the pen tool threw a TypeError
    \* ---- editing.js: the overlay's focus and the blur timeouts ----
    timers,         \* the setTimeout callbacks of handleEditBlur not yet run or cleared:
                    \* [id, live], live = its textarea is the overlay in the document
    editBlurTimeout,\* the module's editBlurTimeout: a timer id, or NoTimeout (null)
    nextTimerId,    \* the id the next setTimeout returns
    focused,        \* the overlay is document.activeElement
    \* ---- what the last tick did (observation) ----
    tick,           \* the last tick: what it started from, cleared and painted
    marks,          \* marks since the last tick: "none", "some" (markDirty only), "all"
    since           \* since the last tick: the last markDirty call, whether the
                    \* window was resized

mvars == <<mpc, regions, merged, remerged, builderMerged, overlap, combined, passes,
           objects, overlapCopies>>

svars == <<dirtyRegions, fullRedraw, framesPending, tick, marks, since>>

rvars == <<constructed, animationFrameId, canvas, elements, nextElementId,
           editingElement, selectedElement, overlays, editValue>>

bvars == <<dpr, inner, canvasApp, layers, viewX, viewY, zoom, isDragging, lastX, lastY>>

pvars == <<currentTool, bezierDrawingState, currentCurvePoints, currentMousePosCartesian,
           penError>>

tvars == <<timers, editBlurTimeout, nextTimerId, focused>>

vars == <<mvars, app, svars, rvars, bvars, pvars, tvars>>

(***************************************************************************)
(* Math.min / Math.max                                                     *)
(***************************************************************************)
Min(p, q) == IF p < q THEN p ELSE q
Max(p, q) == IF p > q THEN p ELSE q

Region(x, y, w, h) == [x |-> x, y |-> y, width |-> w, height |-> h]

(***************************************************************************)
(* dirtyRegions.js                                                         *)
(***************************************************************************)
\* mutant: touching edges no longer count as overlap (<= for <)
regionsOverlap_strict(a, b) ==
    ~( a.x + a.width <= b.x
       \/ b.x + b.width <= a.x
       \/ a.y + a.height <= b.y
       \/ b.y + b.height <= a.y )

regionsOverlap(a, b) ==
    ~( a.x + a.width < b.x          \* A is entirely left of B
       \/ b.x + b.width < a.x       \* B is entirely left of A
       \/ a.y + a.height < b.y      \* A is entirely above B
       \/ b.y + b.height < a.y )    \* B is entirely above A

\* mutant: the far edges of b are ignored
combineRegions_faredge(a, b) ==
    LET x == Min(a.x, b.x)
        y == Min(a.y, b.y)
        right == a.x + a.width
        bottom == a.y + a.height
    IN  [x |-> x, y |-> y, width |-> right - x, height |-> bottom - y]

combineRegions(a, b) ==
    LET x == Min(a.x, b.x)
        y == Min(a.y, b.y)
        right == Max(a.x + a.width, b.x + b.width)
        bottom == Max(a.y + a.height, b.y + b.height)
    IN  [x |-> x, y |-> y, width |-> right - x, height |-> bottom - y]

\* the inner loop of mergeRegions: for (let j = i + 1; ...)
RECURSIVE mergeInner(_, _, _, _, _)
mergeInner(baseRegion, currentRegions, processed, j, didMerge) ==
    IF j > Len(currentRegions)
    THEN [baseRegion |-> baseRegion, processed |-> processed, didMerge |-> didMerge]
    ELSE IF processed[j]
    THEN mergeInner(baseRegion, currentRegions, processed, j + 1, didMerge)
    ELSE IF regionsOverlap(baseRegion, currentRegions[j])
    THEN mergeInner(combineRegions(baseRegion, currentRegions[j]), currentRegions,
                    [processed EXCEPT ![j] = TRUE], j + 1, TRUE)
    ELSE mergeInner(baseRegion, currentRegions, processed, j + 1, didMerge)

\* one pass of the do-while body: for (let i = 0; ...)
RECURSIVE mergePass(_, _, _, _, _)
mergePass(currentRegions, processed, i, acc, didMerge) ==
    IF i > Len(currentRegions)
    THEN [merged |-> acc, didMerge |-> didMerge]
    ELSE IF processed[i]
    THEN mergePass(currentRegions, processed, i + 1, acc, didMerge)
    ELSE LET r == mergeInner(currentRegions[i], currentRegions,
                             [processed EXCEPT ![i] = TRUE], i + 1, didMerge)
         IN  mergePass(currentRegions, r.processed, i + 1,
                       Append(acc, r.baseRegion), r.didMerge)

\* mutant: a single pass, no repetition until the fixed point
mergeLoop_singlePass(currentRegions) ==
    mergePass(currentRegions, [k \in 1..Len(currentRegions) |-> FALSE], 1, <<>>, FALSE).merged

\* do { ... } while (didMerge)
RECURSIVE mergeLoop(_)
mergeLoop(currentRegions) ==
    LET p == mergePass(currentRegions, [k \in 1..Len(currentRegions) |-> FALSE],
                       1, <<>>, FALSE)
    IN  IF p.didMerge THEN mergeLoop(p.merged) ELSE p.merged

\* mutant: the loop repeats while more than one region is left
mergePasses_untilOne(currentRegions, fuel) ==
    LET RECURSIVE run(_, _)
        run(current, left) ==
            IF left = 0 THEN <<>>
            ELSE LET p == mergePass(current, [k \in 1..Len(current) |-> FALSE],
                                    1, <<>>, FALSE)
                 IN  <<[input |-> current, output |-> p.merged, didMerge |-> p.didMerge]>>
                     \o (IF Len(p.merged) > 1 THEN run(p.merged, left - 1) ELSE <<>>)
    IN  run(currentRegions, fuel)

\* the passes of the do-while loop, one record per execution of its body: the
\* list the pass starts from, the list it builds and its didMerge flag.  The
\* loop is followed for at most fuel passes.
RECURSIVE mergePasses(_, _)
mergePasses(currentRegions, fuel) ==
    IF fuel = 0 THEN <<>>
    ELSE LET p == mergePass(currentRegions, [k \in 1..Len(currentRegions) |-> FALSE],
                            1, <<>>, FALSE)
         IN  <<[input |-> currentRegions, output |-> p.merged, didMerge |-> p.didMerge]>>
             \o (IF p.didMerge THEN mergePasses(p.merged, fuel - 1) ELSE <<>>)

(***************************************************************************)
(* mergeRegions on objects.  heap is the sequence of the region objects    *)
(* that exist, a reference is an index into it; an array is a sequence of  *)
(* references.  { ...currentRegions[i] } and the object literal returned   *)
(* by combineRegions are new objects, appended to the heap.                *)
(***************************************************************************)
\* mutant: the combined region is written into the object of currentRegions[j],
\* which becomes the base, instead of into a new object
mergeInnerOnHeap_reuse(heap, baseRegion, currentRegions, processed, j, didMerge) ==
    LET RECURSIVE run(_, _, _, _, _)
        run(h, base, done, k, did) ==
            IF k > Len(currentRegions)
            THEN [heap |-> h, baseRegion |-> base, processed |-> done, didMerge |-> did]
            ELSE IF done[k] THEN run(h, base, done, k + 1, did)
            ELSE IF regionsOverlap(h[base], h[currentRegions[k]])
            THEN run([h EXCEPT ![currentRegions[k]] =
                                   combineRegions(h[base], h[currentRegions[k]])],
                     currentRegions[k], [done EXCEPT ![k] = TRUE], k + 1, TRUE)
            ELSE run(h, base, done, k + 1, did)
    IN  run(heap, baseRegion, processed, j, didMerge)

\* the inner loop: baseRegion = combineRegions(baseRegion, currentRegions[j])
RECURSIVE mergeInnerOnHeap(_, _, _, _, _, _)
mergeInnerOnHeap(heap, baseRegion, currentRegions, processed, j, didMerge) ==
    IF j > Len(currentRegions)
    THEN [heap |-> heap, baseRegion |-> baseRegion, processed |-> processed,
          didMerge |-> didMerge]
    ELSE IF processed[j]
    THEN mergeInnerOnHeap(heap, baseRegion, currentRegions, processed, j + 1, didMerge)
    ELSE IF regionsOverlap(heap[baseRegion], heap[currentRegions[j]])
    THEN LET combinedObject == combineRegions(heap[baseRegion], heap[currentRegions[j]])
         IN  mergeInnerOnHeap(Append(heap, combinedObject), Len(heap) + 1, currentRegions,
                              [processed EXCEPT ![j] = TRUE], j + 1, TRUE)
    ELSE mergeInnerOnHeap(heap, baseRegion, currentRegions, processed, j + 1, didMerge)

\* one pass: let baseRegion = { ...currentRegions[i] }; ...; merged.push(baseRegion)
RECURSIVE mergePassOnHeap(_, _, _, _, _, _)
mergePassOnHeap(heap, currentRegions, processed, i, acc, didMerge) ==
    IF i > Len(currentRegions)
    THEN [heap |-> heap, merged |-> acc, didMerge |-> didMerge]
    ELSE IF processed[i]
    THEN mergePassOnHeap(heap, currentRegions, processed, i + 1, acc, didMerge)
    ELSE LET r == mergeInnerOnHeap(Append(heap, heap[currentRegions[i]]), Len(heap) + 1,
                                   currentRegions, [processed EXCEPT ![i] = TRUE],
                                   i + 1, didMerge)
         IN  mergePassOnHeap(r.heap, currentRegions, r.processed, i + 1,
                             Append(acc, r.baseRegion), r.didMerge)

RECURSIVE mergeLoopOnHeap(_, _)
mergeLoopOnHeap(heap, currentRegions) ==
    LET p == mergePassOnHeap(heap, currentRegions,
                             [k \in 1..Len(currentRegions) |-> FALSE], 1, <<>>, FALSE)
    IN  IF p.didMerge THEN mergeLoopOnHeap(p.heap, p.merged)
                      ELSE [heap |-> p.heap, merged |-> p.merged]

\* mergeRegions(regions) for the array regions of references into heap: the
\* heap when it returns, the array regions as the caller finds it (the function
\* works on the copy [...regions] and never writes to regions) and the array
\* returned
mergeRegionsOnHeap(heap, rs) ==
    IF Len(rs) <= 1
    THEN [heap |-> heap, regions |-> rs, merged |-> rs]
    ELSE LET r == mergeLoopOnHeap(heap, rs)
         IN  [heap |-> r.heap, regions |-> rs, merged |-> r.merged]

\* mutant: a short list is dropped instead of returned
mergeRegions_dropShort(rs) ==
    IF Len(rs) <= 1 THEN <<>> ELSE mergeLoop(rs)

mergeRegions(rs) ==
    IF Len(rs) <= 1 THEN rs ELSE mergeLoop(rs)

(***************************************************************************)
(* canvasFrameworkBuilder.js: the class's own copies of the three          *)
(* functions.                                                              *)
(***************************************************************************)
\* mutant: touching regions do not overlap for the builder
Builder_regionsOverlap_strict(a, b) ==
    ~( a.x + a.width <= b.x \/ b.x + b.width <= a.x
       \/ a.y + a.height <= b.y \/ b.y + b.height <= a.y )

Builder_regionsOverlap(a, b) ==
    ~( a.x + a.width < b.x \/ b.x + b.width < a.x
       \/ a.y + a.height < b.y \/ b.y + b.height < a.y )

\* Rectangle.regionsOverlap and ImageElement.regionsOverlap (README)
Rectangle_regionsOverlap(a, b) ==
    ~( a.x + a.width < b.x \/ b.x + b.width < a.x
       \/ a.y + a.height < b.y \/ b.y + b.height < a.y )

ImageElement_regionsOverlap(a, b) ==
    ~( a.x + a.width < b.x \/ b.x + b.width < a.x
       \/ a.y + a.height < b.y \/ b.y + b.height < a.y )

Builder_combineRegions(a, b) ==
    LET x == Min(a.x, b.x)
        y == Min(a.y, b.y)
    IN  [x |-> x, y |-> y,
         width |-> Max(a.x + a.width, b.x + b.width) - x,
         height |-> Max(a.y + a.height, b.y + b.height) - y]

RECURSIVE Builder_mergeInner(_, _, _, _, _)
Builder_mergeInner(base, currentRegions, processed, j, didMerge) ==
    IF j > Len(currentRegions)
    THEN [base |-> base, processed |-> processed, didMerge |-> didMerge]
    ELSE IF processed[j]
    THEN Builder_mergeInner(base, currentRegions, processed, j + 1, didMerge)
    ELSE IF Builder_regionsOverlap(base, currentRegions[j])
    THEN Builder_mergeInner(Builder_combineRegions(base, currentRegions[j]),
                            currentRegions, [processed EXCEPT ![j] = TRUE], j + 1, TRUE)
    ELSE Builder_mergeInner(base, currentRegions, processed, j + 1, didMerge)

RECURSIVE Builder_mergePass(_, _, _, _, _)
Builder_mergePass(currentRegions, processed, i, acc, didMerge) ==
    IF i > Len(currentRegions)
    THEN [merged |-> acc, didMerge |-> didMerge]
    ELSE IF processed[i]
    THEN Builder_mergePass(currentRegions, processed, i + 1, acc, didMerge)
    ELSE LET r == Builder_mergeInner(currentRegions[i], currentRegions,
                                     [processed EXCEPT ![i] = TRUE], i + 1, didMerge)
         IN  Builder_mergePass(currentRegions, r.processed, i + 1,
                               Append(acc, r.base), r.didMerge)

RECURSIVE Builder_mergeLoop(_)
Builder_mergeLoop(currentRegions) ==
    LET p == Builder_mergePass(currentRegions,
                               [k \in 1..Len(currentRegions) |-> FALSE], 1, <<>>, FALSE)
    IN  IF p.didMerge THEN Builder_mergeLoop(p.merged) ELSE p.merged

Builder_mergeRegions(rs) ==
    IF Len(rs) <= 1 THEN rs ELSE Builder_mergeLoop(rs)

(***************************************************************************)
(* utils/constants.js and the constants of dirtyRegions.js                 *)
(***************************************************************************)
HANDLE_SIZE == 8
SELECTION_LINE_WIDTH == 1
\* const buffer = 2 in markDirty
buffer == 2

\* this.editingElement = null
NoElement == -1
\* this.animationFrameId before requestAnimationFrame / after stop()
NoFrame == "none"

(***************************************************************************)
(* Inputs of the CartesianRenderer operations.  Positions are Cartesian    *)
(* (origin at the canvas centre, y up); all are integers, so that the      *)
(* divisions by two below are the only source of fractions.                *)
(***************************************************************************)
\* window.innerWidth x window.innerHeight
WindowSizes == { [width |-> 12, height |-> 8], [width |-> 9, height |-> 8] }

\* addElement(x, y, width, height)
RectInputs ==
    { [x |-> -2, y |-> 1, width |-> 2, height |-> 2],
      [x |-> 3, y |-> -2, width |-> 0, height |-> 2] }

\* the texts typed, with what ctx.measureText and the font yield for each:
\* maxWidth (widest line) and totalHeight (lines * fontSize * lineHeight)
\* the emptied text is one line of width 0
Texts == { "", "ab", "abcd" }

measureText(t) ==
    IF t = "" THEN [maxWidth |-> 0, totalHeight |-> 2]
    ELSE IF t = "ab" THEN [maxWidth |-> 2, totalHeight |-> 2]
                     ELSE [maxWidth |-> 4, totalHeight |-> 2]

\* addText(x, y, text, options)
TextInputs ==
    { [x |-> -3, y |-> 2, text |-> "ab", padding |-> 1,
       textAlign |-> "left", textBaseline |-> "top"],
      [x |-> 2, y |-> -1, text |-> "ab", padding |-> 0,
       textAlign |-> "center", textBaseline |-> "middle"] }

\* addImage(x, y, src, options): options.width / options.height given or not
ImageInputs ==
    { [x |-> 2, y |-> 2, width |-> 2, widthSet |-> TRUE, height |-> 0, heightSet |-> FALSE],
      [x |-> -2, y |-> -2, width |-> 0, widthSet |-> FALSE, height |-> 0, heightSet |-> FALSE] }

\* image.naturalWidth x image.naturalHeight
NaturalSizes == { [width |-> 4, height |-> 2] }

(***************************************************************************)
(* elements.js                                                             *)
(***************************************************************************)
createRectElement(id, in) ==
    [id |-> id, type |-> "rect", x |-> in.x, y |-> in.y,
     width |-> in.width, widthSet |-> TRUE, height |-> in.height, heightSet |-> TRUE,
     loaded |-> FALSE, error |-> FALSE,
     text |-> "", padding |-> 0, textAlign |-> "center", textBaseline |-> "middle",
     maxWidth |-> 0, totalHeight |-> 0]

\* updateTextMetrics: maxWidth and totalHeight of the element for its text
updateTextMetrics(el, text) ==
    [el EXCEPT !.text = text,
               !.maxWidth = measureText(text).maxWidth,
               !.totalHeight = measureText(text).totalHeight]

\* options.width (the wrapping width) is left null, as in validateTextOptions' default
createTextElement(id, in) ==
    updateTextMetrics(
        [id |-> id, type |-> "text", x |-> in.x, y |-> in.y,
         width |-> 0, widthSet |-> FALSE, height |-> 0, heightSet |-> FALSE,
         loaded |-> FALSE, error |-> FALSE,
         text |-> in.text, padding |-> in.padding,
         textAlign |-> in.textAlign, textBaseline |-> in.textBaseline,
         maxWidth |-> 0, totalHeight |-> 0],
        in.text)

createImageElement(id, in) ==
    [id |-> id, type |-> "image", x |-> in.x, y |-> in.y,
     width |-> in.width, widthSet |-> in.widthSet,
     height |-> in.height, heightSet |-> in.heightSet,
     loaded |-> FALSE, error |-> FALSE,
     text |-> "", padding |-> 0, textAlign |-> "center", textBaseline |-> "middle",
     maxWidth |-> 0, totalHeight |-> 0]

\* element.image.onload: the dimensions not given are derived from the natural size
\* (the inputs are chosen so that the quotients are exact)
imageOnload(el, natural) ==
    LET sized ==
            IF el.widthSet /\ el.heightSet THEN el
            ELSE IF el.widthSet
            THEN [el EXCEPT !.height = (el.width * natural.height) \div natural.width,
                            !.heightSet = TRUE]
            ELSE IF el.heightSet
            THEN [el EXCEPT !.width = (el.height * natural.width) \div natural.height,
                            !.widthSet = TRUE]
            ELSE [el EXCEPT !.width = natural.width, !.widthSet = TRUE,
                            !.height = natural.height, !.heightSet = TRUE]
    IN  [sized EXCEPT !.loaded = TRUE, !.error = FALSE]

\* mutant: the placeholder size replaces the size given at creation
imageOnerror_overwrite(el) ==
    [el EXCEPT !.error = TRUE, !.loaded = FALSE,
               !.width = 50, !.widthSet = TRUE,
               !.height = 50, !.heightSet = TRUE]

\* element.image.onerror: 50 for each dimension not given
imageOnerror(el) ==
    [el EXCEPT !.error = TRUE, !.loaded = FALSE,
               !.width = IF el.widthSet THEN el.width ELSE 50, !.widthSet = TRUE,
               !.height = IF el.heightSet THEN el.height ELSE 50, !.heightSet = TRUE]

(***************************************************************************)
(* utils/coordinates.js: getElementScreenBounds.  The screen position     *)
(* is originX + x, originY - y with originX = canvas.width / 2; it is kept *)
(* doubled until Math.floor so that halves are exact.                      *)
(***************************************************************************)
NullBounds == [left |-> 0, top |-> 0, width |-> 0, height |-> 0, isNull |-> TRUE]

getElementScreenBounds(cv, selected, element) ==
    LET pos2x == cv.width + 2 * element.x
        pos2y == cv.height - 2 * element.y
        paddedWidth == element.maxWidth + element.padding * 2
        paddedHeight == element.totalHeight + element.padding * 2
        totalMargin == (HANDLE_SIZE \div 2) + SELECTION_LINE_WIDTH + 1
        margin == IF element.id = selected /\ element.type = "image" THEN totalMargin ELSE 0
    IN  IF element.type = "text"
        THEN [left |-> (CASE element.textAlign = "left" -> pos2x - 2 * element.padding
                          [] element.textAlign = "right" ->
                                 pos2x - 2 * element.maxWidth - 2 * element.padding
                          [] OTHER -> pos2x - paddedWidth) \div 2,
              top |-> (CASE element.textBaseline = "top" -> pos2y - 2 * element.padding
                         [] element.textBaseline = "bottom" ->
                                pos2y - 2 * element.totalHeight - 2 * element.padding
                         [] OTHER -> pos2y - paddedHeight) \div 2,
              width |-> paddedWidth, height |-> paddedHeight, isNull |-> FALSE]
        ELSE IF element.type \in {"rect", "image"}
        THEN IF ~element.widthSet \/ ~element.heightSet
             THEN NullBounds
             ELSE [left |-> (pos2x - element.width - 2 * margin) \div 2,
                   top |-> (pos2y - element.height - 2 * margin) \div 2,
                   width |-> element.width + margin * 2,
                   height |-> element.height + margin * 2, isNull |-> FALSE]
        ELSE NullBounds

(***************************************************************************)
(* dirtyRegions.js: markDirty and markEntireCanvasDirty, as functions of   *)
(* the pending list.                                                       *)
(***************************************************************************)
\* mutant: the region is pushed whatever its size
markDirty_noFilter(dr, cv, selected, element) ==
    LET bounds == getElementScreenBounds(cv, selected, element)
    IN  Append(dr, Region(bounds.left - buffer, bounds.top - buffer,
                          bounds.width + buffer * 2, bounds.height + buffer * 2))

markDirty(dr, cv, selected, element) ==
    LET bounds == getElementScreenBounds(cv, selected, element)
    IN  IF bounds.width <= 0 \/ bounds.height <= 0
        THEN dr
        ELSE Append(dr, Region(bounds.left - buffer, bounds.top - buffer,
                               bounds.width + buffer * 2, bounds.height + buffer * 2))

\* renderer.dirtyRegions after markEntireCanvasDirty (fullRedraw is set beside it)
EntireCanvas(cv) == <<Region(0, 0, cv.width, cv.height)>>

\* the marks since the last tick, after a call of markDirty
AfterMarkDirty == IF marks = "all" THEN "all" ELSE "some"

\* no markDirty call yet
NoMark ==
    [called |-> FALSE, positive |-> FALSE, negative |-> FALSE,
     appended |-> FALSE, kept |-> TRUE]

\* no markDirty call and no resize since the last tick
NoSince == [lastMark |-> NoMark, resized |-> FALSE]

\* the record of a markDirty call for the region r (for markDirty(renderer,
\* element): the element's bounds moved out by the buffer) that turned the list
\* before into after: whether r has positive width and height, whether its x or
\* y is negative, whether the call pushed one region, whether it left the list
\* as it was
MarkRecord(r, before, after) ==
    [called |-> TRUE,
     positive |-> (r.width > 0 /\ r.height > 0),
     negative |-> (r.x < 0 \/ r.y < 0),
     appended |-> (Len(after) = Len(before) + 1),
     kept |-> (after = before)]

MarkOf(dr, cv, selected, element) ==
    LET bounds == getElementScreenBounds(cv, selected, element)
    IN  MarkRecord(Region(bounds.left - buffer, bounds.top - buffer,
                          bounds.width, bounds.height),
                   dr, markDirty(dr, cv, selected, element))

\* since, after a handler whose last markDirty call is mark
SinceMarked(mark) == [since EXCEPT !.lastMark = mark]

(***************************************************************************)
(* Renderer.js: CartesianRenderer                                          *)
(***************************************************************************)
ElementIds(els) == [i \in 1..Len(els) |-> els[i].id]

IndexOf(els, id) == CHOOSE i \in 1..Len(els) : els[i].id = id

\* mutant: the elements are visited from the last to the first
NotEdited_frontToBack(els, editing) ==
    LET kept == SelectSeq(ElementIds(els), LAMBDA id : id # editing)
    IN  [i \in 1..Len(kept) |-> kept[Len(kept) + 1 - i]]

\* the elements the forEach of draw() does not skip: el !== this.editingElement
NotEdited(els, editing) ==
    SelectSeq(ElementIds(els), LAMBDA id : id # editing)

\* drawElementByType(el): TRUE when the switch has a case for el.type and calls
\* its drawing function, FALSE when it falls to the default and only warns
drawElementByType(el) == el.type \in {"rect", "text", "image"}

\* the elements the forEach of the full branch of draw() paints, in its order
Drawn(els, editing) ==
    SelectSeq(NotEdited(els, editing),
              LAMBDA id : drawElementByType(els[IndexOf(els, id)]))

\* the clearRect of a merged region: Math.floor of the corner, Math.ceil of the
\* size plus one
SnapRegion(r) == Region(r.x, r.y, r.width + 1, r.height + 1)

\* mutant: a pending region list takes precedence over the fullRedraw flag
draw_regionsFirst(fr, dr, cv, els, editing) ==
    IF Len(dr) > 1
    THEN [kind |-> "partial",
          cleared |-> [i \in 1..Len(mergeRegions(dr)) |-> SnapRegion(mergeRegions(dr)[i])],
          painted |-> <<>>, fullRedraw |-> FALSE, dirtyRegions |-> <<>>]
    ELSE IF fr
    THEN [kind |-> "full", cleared |-> EntireCanvas(cv),
          painted |-> Drawn(els, editing),
          fullRedraw |-> FALSE, dirtyRegions |-> <<>>]
    ELSE [kind |-> "noop", cleared |-> <<>>, painted |-> <<>>,
          fullRedraw |-> FALSE, dirtyRegions |-> <<>>]

\* mutant: a tick with nothing pending repaints the whole canvas
draw_idleRepaint(fr, dr, cv, els, editing) ==
    IF fr \/ Len(dr) = 0
    THEN [kind |-> IF fr THEN "full" ELSE "noop", cleared |-> EntireCanvas(cv),
          painted |-> Drawn(els, editing),
          fullRedraw |-> FALSE, dirtyRegions |-> <<>>]
    ELSE LET m == mergeRegions(dr)
             cleared == [i \in 1..Len(m) |-> SnapRegion(m[i])]
         IN  IF NotEdited(els, editing) # <<>>
             THEN [kind |-> "threw", cleared |-> cleared, painted |-> <<>>,
                   fullRedraw |-> fr, dirtyRegions |-> dr]
             ELSE [kind |-> "partial", cleared |-> cleared, painted |-> <<>>,
                   fullRedraw |-> FALSE, dirtyRegions |-> <<>>]

(***************************************************************************)
(* draw(): what one call clears and paints, and the dirty state it leaves. *)
(* In the partial branch the forEach calls                                 *)
(* DirtyRegions.getElementScreenBounds, which dirtyRegions.js does not     *)
(* export: the call throws a TypeError at the first element that is not    *)
(* the one being edited, after the regions were cleared and before the     *)
(* flags are reset.                                                        *)
(***************************************************************************)
draw(fr, dr, cv, els, editing) ==
    IF fr
    THEN [kind |-> "full", cleared |-> EntireCanvas(cv),
          painted |-> Drawn(els, editing),
          fullRedraw |-> FALSE, dirtyRegions |-> <<>>]
    ELSE IF Len(dr) > 0
    THEN LET m == mergeRegions(dr)
             cleared == [i \in 1..Len(m) |-> SnapRegion(m[i])]
         IN  IF NotEdited(els, editing) # <<>>
             THEN [kind |-> "threw", cleared |-> cleared, painted |-> <<>>,
                   fullRedraw |-> fr, dirtyRegions |-> dr]
             ELSE [kind |-> "partial", cleared |-> cleared, painted |-> <<>>,
                   fullRedraw |-> FALSE, dirtyRegions |-> <<>>]
    ELSE [kind |-> "noop", cleared |-> <<>>, painted |-> <<>>,
          fullRedraw |-> FALSE, dirtyRegions |-> <<>>]

\* the ticks that ran to their end
Completed == {"full", "partial", "noop"}

\* animate(): draw(), then requestAnimationFrame unless draw() threw.
\* fr is this.fullRedraw when draw() is entered.
RendererTick(fr) ==
    LET d == draw(fr, dirtyRegions, canvas, elements, editingElement)
    IN  /\ tick' = [kind |-> d.kind, cleared |-> d.cleared, painted |-> d.painted,
                    marks |-> marks, pending |-> Len(dirtyRegions),
                    elems |-> ElementIds(elements), editing |-> editingElement,
                    hidden |-> {}, surface |-> Region(0, 0, canvas.width, canvas.height),
                    repeat |-> (marks = "none" /\ tick.kind \in Completed),
                    first |-> (tick.kind = "none"), wasFull |-> fr]
        /\ fullRedraw' = d.fullRedraw
        /\ dirtyRegions' = d.dirtyRegions
        /\ marks' = IF d.kind = "threw" THEN marks ELSE "none"
        /\ since' = IF d.kind = "threw" THEN since ELSE NoSince
        /\ animationFrameId' =
               IF d.kind # "threw" THEN "frame"
               ELSE IF framesPending = 1 /\ animationFrameId = "frame" THEN "fired"
               ELSE animationFrameId

\* start(), called by the constructor: fullRedraw = true, then animate()
Start ==
    /\ app = "renderer"
    /\ ~constructed
    /\ animationFrameId = NoFrame
    /\ RendererTick(TRUE)
    /\ framesPending' = framesPending + 1
    /\ constructed' = TRUE
    /\ UNCHANGED <<mvars, pvars, tvars, bvars, app, canvas, elements, nextElementId, editingElement,
                   selectedElement, overlays, editValue>>

\* a requested animation frame fires: animate()
Animate ==
    /\ app = "renderer"
    /\ constructed
    /\ framesPending > 0
    /\ RendererTick(fullRedraw)
    /\ framesPending' = IF tick'.kind = "threw" THEN framesPending - 1 ELSE framesPending
    /\ UNCHANGED <<mvars, pvars, tvars, bvars, app, constructed, canvas, elements, nextElementId,
                   editingElement, selectedElement, overlays, editValue>>

\* mutant: the new element is put below the others
AddNew_unshift(element) ==
    /\ app = "renderer"
    /\ constructed
    /\ Len(elements) < MaxElements
    /\ Len(dirtyRegions) < MaxDirty
    /\ elements' = <<element>> \o elements
    /\ nextElementId' = nextElementId + 1
    /\ dirtyRegions' = markDirty(dirtyRegions, canvas, selectedElement, element)
    /\ marks' = AfterMarkDirty
    /\ since' = SinceMarked(MarkOf(dirtyRegions, canvas, selectedElement, element))
    /\ UNCHANGED <<mvars, pvars, tvars, bvars, app, fullRedraw, framesPending, tick, constructed,
                   animationFrameId, canvas, editingElement, selectedElement,
                   overlays, editValue>>

\* addElement / addText / addImage: push the element, markDirty(element)
AddNew(element) ==
    /\ app = "renderer"
    /\ constructed
    /\ Len(elements) < MaxElements
    /\ Len(dirtyRegions) < MaxDirty
    /\ elements' = Append(elements, element)
    /\ nextElementId' = nextElementId + 1
    /\ dirtyRegions' = markDirty(dirtyRegions, canvas, selectedElement, element)
    /\ marks' = AfterMarkDirty
    /\ since' = SinceMarked(MarkOf(dirtyRegions, canvas, selectedElement, element))
    /\ UNCHANGED <<mvars, pvars, tvars, bvars, app, fullRedraw, framesPending, tick, constructed,
                   animationFrameId, canvas, editingElement, selectedElement,
                   overlays, editValue>>

AddElement == \E in \in RectInputs : AddNew(createRectElement(nextElementId, in))

AddText == \E in \in TextInputs : AddNew(createTextElement(nextElementId, in))

AddImage == \E in \in ImageInputs : AddNew(createImageElement(nextElementId, in))

\* the load or error callback of an image runs: set the state and the size,
\* then renderer.markDirty(element)
ImageSettled(i, element) ==
    /\ app = "renderer"
    /\ constructed
    /\ elements[i].type = "image"
    /\ ~elements[i].loaded /\ ~elements[i].error
    /\ Len(dirtyRegions) < MaxDirty
    /\ elements' = [elements EXCEPT ![i] = element]
    /\ dirtyRegions' = markDirty(dirtyRegions, canvas, selectedElement, element)
    /\ marks' = AfterMarkDirty
    /\ since' = SinceMarked(MarkOf(dirtyRegions, canvas, selectedElement, element))
    /\ UNCHANGED <<mvars, pvars, tvars, bvars, app, fullRedraw, framesPending, tick, constructed,
                   animationFrameId, canvas, nextElementId, editingElement,
                   selectedElement, overlays, editValue>>

ImageOnload ==
    \E i \in 1..Len(elements), natural \in NaturalSizes :
        ImageSettled(i, imageOnload(elements[i], natural))

ImageOnerror ==
    \E i \in 1..Len(elements) : ImageSettled(i, imageOnerror(elements[i]))

\* handleResize: markEntireCanvasDirty, then setupCanvas (new size, new origin,
\* markEntireCanvasDirty)
HandleResize ==
    /\ app = "renderer"
    /\ constructed
    /\ \E size \in WindowSizes :
        /\ canvas' = size
        /\ dirtyRegions' = EntireCanvas(size)
    /\ fullRedraw' = TRUE
    /\ marks' = "all"
    /\ since' = [since EXCEPT !.resized = TRUE]
    /\ UNCHANGED <<mvars, pvars, tvars, bvars, app, framesPending, tick, constructed, animationFrameId,
                   elements, nextElementId, editingElement, selectedElement,
                   overlays, editValue>>

(***************************************************************************)
(* editing.js (the second half of Renderer.js).  stopEditing and           *)
(* startEditing are functions of the renderer fields they touch, collected *)
(* in a record so that startEditing can call stopEditing.                  *)
(***************************************************************************)
EditState ==
    [elements |-> elements, dirtyRegions |-> dirtyRegions,
     editingElement |-> editingElement, selectedElement |-> selectedElement,
     overlays |-> overlays, editValue |-> editValue, lastMark |-> since.lastMark,
     timers |-> timers, focused |-> focused]

\* let editBlurTimeout = null
NoTimeout == 0

\* clearTimeout(id): the timer of that id, if it is pending, never runs
clearTimeout(pending, id) == { t \in pending : t.id # id }

\* the textarea has left the document: no timer's textarea is the overlay
Detached(pending) == { [t EXCEPT !.live = FALSE] : t \in pending }

stopEditing(st, cancel) ==
    IF st.editingElement = NoElement THEN st
    ELSE IF st.editingElement \notin st.overlays
    THEN [st EXCEPT !.editingElement = NoElement]
    ELSE LET i == IndexOf(st.elements, st.editingElement)
             element == st.elements[i]
             changed == ~cancel /\ st.editValue # element.text
             updated == IF changed THEN updateTextMetrics(element, st.editValue)
                                   ELSE element
             first == IF cancel \/ changed
                      THEN markDirty(st.dirtyRegions, canvas, st.selectedElement, updated)
                      ELSE st.dirtyRegions
         IN  [elements |-> [st.elements EXCEPT ![i] = updated],
              dirtyRegions |-> markDirty(first, canvas, element.id, updated),
              editingElement |-> NoElement,
              selectedElement |-> element.id,
              overlays |-> st.overlays \ {element.id},
              editValue |-> st.editValue,
              lastMark |-> MarkOf(first, canvas, element.id, updated),
              timers |-> Detached(clearTimeout(st.timers, editBlurTimeout)),
              focused |-> FALSE]

\* mutant: the session in progress is not stopped first
startEditing_noStop(st, i) ==
    LET element == st.elements[i]
    IN  [elements |-> st.elements,
         dirtyRegions |-> markDirty(st.dirtyRegions, canvas, NoElement, element),
         editingElement |-> element.id,
         selectedElement |-> NoElement,
         overlays |-> st.overlays \cup {element.id},
         editValue |-> element.text,
         lastMark |-> MarkOf(st.dirtyRegions, canvas, NoElement, element),
         timers |-> st.timers,
         focused |-> TRUE]

startEditing(st, i) ==
    LET before == stopEditing(st, FALSE)
        element == before.elements[i]
    IN  [elements |-> before.elements,
         dirtyRegions |-> markDirty(before.dirtyRegions, canvas, NoElement, element),
         editingElement |-> element.id,
         selectedElement |-> NoElement,
         overlays |-> before.overlays \cup {element.id},
         editValue |-> element.text,
         lastMark |-> MarkOf(before.dirtyRegions, canvas, NoElement, element),
         timers |-> before.timers,
         focused |-> TRUE]

\* the fields of the record written back to the renderer
Edited(st) ==
    /\ Len(st.dirtyRegions) <= MaxDirty
    /\ elements' = st.elements
    /\ dirtyRegions' = st.dirtyRegions
    /\ editingElement' = st.editingElement
    /\ selectedElement' = st.selectedElement
    /\ overlays' = st.overlays
    /\ editValue' = st.editValue
    /\ marks' = IF st.dirtyRegions = dirtyRegions THEN marks ELSE AfterMarkDirty
    /\ since' = SinceMarked(st.lastMark)
    /\ timers' = st.timers
    /\ focused' = st.focused
    /\ UNCHANGED <<mvars, pvars, bvars, app, fullRedraw, framesPending, tick, constructed,
                   animationFrameId, canvas, nextElementId, editBlurTimeout, nextTimerId>>

\* handleDoubleClick away from the overlay: while a text is edited it commits
\* the edit and returns; otherwise, with the select tool (renderer.currentTool
\* is set by the page's toolbar) on a text element, it starts editing it
HandleDoubleClick ==
    /\ app = "renderer"
    /\ constructed
    /\ IF editingElement # NoElement
       THEN Edited(stopEditing(EditState, FALSE))
       ELSE \E i \in 1..Len(elements) :
                /\ currentTool = "select"
                /\ elements[i].type = "text"
                /\ Edited(startEditing(EditState, i))

\* startEditing(renderer, element) called for a text element, whether or not
\* another one is being edited
StartEditing ==
    /\ app = "renderer"
    /\ constructed
    /\ \E i \in 1..Len(elements) :
          /\ elements[i].type = "text"
          /\ Edited(startEditing(EditState, i))

\* typing in the focused textarea: handleEditKeyDown and handleEditInput clear
\* the blur timeout
EditInput ==
    /\ app = "renderer"
    /\ constructed
    /\ editingElement \in overlays
    /\ focused
    /\ \E value \in Texts \ {editValue} : editValue' = value
    /\ timers' = clearTimeout(timers, editBlurTimeout)
    /\ UNCHANGED <<mvars, pvars, bvars, app, svars, constructed, animationFrameId, canvas,
                   elements, nextElementId, editingElement, selectedElement, overlays,
                   editBlurTimeout, nextTimerId, focused>>

\* the overlay's keydown handler: it clears the blur timeout, then Enter
\* commits and Escape cancels
StopEditing ==
    /\ app = "renderer"
    /\ constructed
    /\ editingElement # NoElement
    /\ focused
    /\ \E cancel \in BOOLEAN :
          Edited(stopEditing([EditState EXCEPT
                                 !.timers = clearTimeout(timers, editBlurTimeout)],
                             cancel))

\* handleEditBlur: the overlay loses the focus; a timeout of 150 ms is set and
\* its id stored in editBlurTimeout, whatever timeout was stored there before
EditBlur ==
    /\ app = "renderer"
    /\ constructed
    /\ editingElement \in overlays
    /\ focused
    /\ nextTimerId <= MaxTimers
    /\ focused' = FALSE
    /\ timers' = timers \cup {[id |-> nextTimerId, live |-> TRUE]}
    /\ editBlurTimeout' = nextTimerId
    /\ nextTimerId' = nextTimerId + 1
    /\ UNCHANGED <<mvars, pvars, bvars, app, svars, rvars>>

\* the user clicks into the overlay again: it is document.activeElement again
EditFocus ==
    /\ app = "renderer"
    /\ constructed
    /\ editingElement \in overlays
    /\ ~focused
    /\ focused' = TRUE
    /\ UNCHANGED <<mvars, pvars, bvars, app, svars, rvars, timers, editBlurTimeout,
                   nextTimerId>>

\* the callback of the timeout t runs: if an element is being edited and the
\* textarea of the handler is not document.activeElement, stopEditing(renderer)
BlurTimeoutOf(t) ==
    /\ app = "renderer"
    /\ constructed
    /\ t \in timers
    /\ IF editingElement # NoElement /\ (~t.live \/ ~focused)
       THEN Edited(stopEditing([EditState EXCEPT !.timers = timers \ {t}], FALSE))
       ELSE /\ timers' = timers \ {t}
            /\ UNCHANGED <<mvars, pvars, bvars, app, svars, rvars, editBlurTimeout,
                           nextTimerId, focused>>

BlurTimeout == \E t \in timers : BlurTimeoutOf(t)

\* mutant: start() does not look at animationFrameId
StartLoop_noGuard ==
    /\ app = "renderer"
    /\ constructed
    /\ RendererTick(TRUE)
    /\ framesPending' = framesPending + 1
    /\ UNCHANGED <<mvars, pvars, tvars, bvars, app, constructed, canvas, elements,
                   nextElementId, editingElement, selectedElement, overlays, editValue>>

\* start() called by the page after the constructor has returned: nothing
\* if animationFrameId is set, else fullRedraw = true and animate()
StartLoop ==
    /\ app = "renderer"
    /\ constructed
    /\ IF animationFrameId # NoFrame
       THEN UNCHANGED vars
       ELSE /\ RendererTick(TRUE)
            /\ framesPending' = framesPending + 1
            /\ UNCHANGED <<mvars, pvars, tvars, bvars, app, constructed, canvas, elements,
                           nextElementId, editingElement, selectedElement, overlays,
                           editValue>>

\* stop(): the frame of animationFrameId is cancelled if it has not run yet and
\* animationFrameId is set to null; the listeners of the canvas and the window
\* are removed; the overlay is removed and editingElement set to null
Stop ==
    /\ app = "renderer"
    /\ constructed
    /\ framesPending' = IF animationFrameId = "frame" THEN framesPending - 1
                                                      ELSE framesPending
    /\ animationFrameId' = NoFrame
    /\ IF editingElement # NoElement
       THEN /\ overlays' = {}
            /\ editingElement' = NoElement
            /\ timers' = Detached(timers)
            /\ focused' = FALSE
       ELSE UNCHANGED <<overlays, editingElement, timers, focused>>
    /\ UNCHANGED <<mvars, pvars, bvars, app, dirtyRegions, fullRedraw, tick, marks, since,
                   constructed, canvas, elements, nextElementId, selectedElement,
                   editValue, editBlurTimeout, nextTimerId>>

(***************************************************************************)
(* eventHandlers.js: the pen tool.  A mouse event carries the position of  *)
(* the pointer on the canvas (clientX - rect.left, clientY - rect.top);    *)
(* the handlers convert it with renderer.toCartesianCoords.  Cartesian     *)
(* points are kept doubled, as the origin canvas.width / 2 may be a half.  *)
(***************************************************************************)
\* a point that is null
NoPoint == [x |-> 0, y |-> 0, isNull |-> TRUE]

\* currentCurvePoints = { p0: null, p1: null, p3: null }
NoCurvePoints == [p0 |-> NoPoint, p1 |-> NoPoint, p3 |-> NoPoint]

\* positions of the pointer on the canvas, in px
PenClicks == { [x |-> 6, y |-> 4], [x |-> 8, y |-> 3] }

\* toCartesianCoords(screenX, screenY, originX, originY), doubled
toCartesianCoords(cv, screen) ==
    [x |-> 2 * screen.x - cv.width, y |-> cv.height - 2 * screen.y, isNull |-> FALSE]

reflectPoint(pointToReflect, centerPoint) ==
    [x |-> centerPoint.x + (centerPoint.x - pointToReflect.x),
     y |-> centerPoint.y + (centerPoint.y - pointToReflect.y),
     isNull |-> FALSE]

\* the element addBezierCurve stores: the type tag and the four points that
\* drawBezierElement reads
createBezierElement(id, p0, p1, p2, p3) ==
    [id |-> id, type |-> "bezier", points |-> <<p0, p1, p2, p3>>]

\* renderer.markEntireCanvasDirty() in a pen handler
PenMarkEntireCanvasDirty ==
    /\ fullRedraw' = TRUE
    /\ dirtyRegions' = EntireCanvas(canvas)
    /\ marks' = "all"

\* mutant: a move of the pointer while P2 is dragged marks nothing
handleMouseMove_silentP2(screen) ==
    LET cartesianPoint == toCartesianCoords(canvas, screen)
    IN  /\ currentMousePosCartesian' = cartesianPoint
        /\ IF bezierDrawingState = "definingP1"
           THEN /\ currentCurvePoints' = [currentCurvePoints EXCEPT !.p1 = cartesianPoint]
                /\ PenMarkEntireCanvasDirty
           ELSE UNCHANGED <<currentCurvePoints, fullRedraw, dirtyRegions, marks>>
        /\ UNCHANGED <<bezierDrawingState, elements, nextElementId>>

\* handleMouseMove with the pen tool
handleMouseMove(screen) ==
    LET cartesianPoint == toCartesianCoords(canvas, screen)
    IN  /\ currentMousePosCartesian' = cartesianPoint
        /\ IF bezierDrawingState = "definingP1"
           THEN /\ currentCurvePoints' = [currentCurvePoints EXCEPT !.p1 = cartesianPoint]
                /\ PenMarkEntireCanvasDirty
           ELSE IF bezierDrawingState = "definingP2"
           THEN /\ PenMarkEntireCanvasDirty
                /\ UNCHANGED currentCurvePoints
           ELSE UNCHANGED <<currentCurvePoints, fullRedraw, dirtyRegions, marks>>
        /\ UNCHANGED <<bezierDrawingState, elements, nextElementId>>

\* mutant: a mousedown while P2 is dragged starts the segment again
handleMouseDown_restart(screen) ==
    LET cartesianPoint == toCartesianCoords(canvas, screen)
    IN  /\ IF bezierDrawingState \in {"idle", "definingP2"}
           THEN /\ bezierDrawingState' = "definingP1"
                /\ currentCurvePoints' =
                       [p0 |-> IF currentCurvePoints.p0.isNull THEN cartesianPoint
                                                               ELSE currentCurvePoints.p0,
                        p1 |-> cartesianPoint,
                        p3 |-> NoPoint]
                /\ PenMarkEntireCanvasDirty
                /\ UNCHANGED currentMousePosCartesian
           ELSE IF bezierDrawingState = "p1Defined"
           THEN /\ bezierDrawingState' = "definingP2"
                /\ currentCurvePoints' = [currentCurvePoints EXCEPT !.p3 = cartesianPoint]
                /\ currentMousePosCartesian' = cartesianPoint
                /\ PenMarkEntireCanvasDirty
           ELSE UNCHANGED <<bezierDrawingState, currentCurvePoints,
                            currentMousePosCartesian, fullRedraw, dirtyRegions, marks>>
        /\ UNCHANGED <<elements, nextElementId>>

\* handleMouseDown with the pen tool
handleMouseDown(screen) ==
    LET cartesianPoint == toCartesianCoords(canvas, screen)
    IN  /\ IF bezierDrawingState = "idle"
           THEN /\ bezierDrawingState' = "definingP1"
                /\ currentCurvePoints' =
                       [p0 |-> IF currentCurvePoints.p0.isNull THEN cartesianPoint
                                                               ELSE currentCurvePoints.p0,
                        p1 |-> cartesianPoint,
                        p3 |-> NoPoint]
                /\ PenMarkEntireCanvasDirty
                /\ UNCHANGED currentMousePosCartesian
           ELSE IF bezierDrawingState = "p1Defined"
           THEN /\ bezierDrawingState' = "definingP2"
                /\ currentCurvePoints' = [currentCurvePoints EXCEPT !.p3 = cartesianPoint]
                /\ currentMousePosCartesian' = cartesianPoint
                /\ PenMarkEntireCanvasDirty
           ELSE UNCHANGED <<bezierDrawingState, currentCurvePoints,
                            currentMousePosCartesian, fullRedraw, dirtyRegions, marks>>
        /\ UNCHANGED <<elements, nextElementId>>

\* renderer.addBezierCurve(p0, p1, p2, p3): the element is created with the
\* next id and pushed, and the canvas is marked dirty
addBezierCurve(p0, p1, p2, p3) ==
    /\ elements' = Append(elements, createBezierElement(nextElementId, p0, p1, p2, p3))
    /\ nextElementId' = nextElementId + 1
    /\ PenMarkEntireCanvasDirty

\* mutant: after a segment is committed the next one keeps the old start point
handleMouseUp_noChain(screen) ==
    LET cartesianPoint == toCartesianCoords(canvas, screen)
        p0 == currentCurvePoints.p0
        p1 == currentCurvePoints.p1
        p3 == currentCurvePoints.p3
        p2 == reflectPoint(cartesianPoint, p3)
    IN  IF bezierDrawingState = "definingP2" /\ p3.isNull
        THEN /\ penError' = TRUE
             /\ UNCHANGED <<bezierDrawingState, currentCurvePoints, elements,
                            nextElementId, currentMousePosCartesian, fullRedraw,
                            dirtyRegions, marks>>
        ELSE
        /\ penError' = FALSE
        /\ currentMousePosCartesian' = NoPoint
        /\ IF bezierDrawingState = "definingP1"
           THEN /\ currentCurvePoints' = [currentCurvePoints EXCEPT !.p1 = cartesianPoint]
                /\ bezierDrawingState' = "p1Defined"
                /\ PenMarkEntireCanvasDirty
                /\ UNCHANGED <<elements, nextElementId>>
           ELSE IF bezierDrawingState = "definingP2"
           THEN IF p0.isNull \/ p1.isNull
                THEN /\ bezierDrawingState' = "idle"
                     /\ currentCurvePoints' = NoCurvePoints
                     /\ PenMarkEntireCanvasDirty
                     /\ UNCHANGED <<elements, nextElementId>>
                ELSE /\ addBezierCurve(p0, p1, p2, p3)
                     /\ currentCurvePoints' =
                            [p0 |-> p0, p1 |-> reflectPoint(p2, p3), p3 |-> NoPoint]
                     /\ bezierDrawingState' = "p1Defined"
           ELSE UNCHANGED <<bezierDrawingState, currentCurvePoints, elements,
                            nextElementId, fullRedraw, dirtyRegions, marks>>

\* handleMouseUp with the pen tool.  In definingP2 with p3 null,
\* reflectPoint(cartesianPoint, p3) reads p3.x and throws a TypeError before
\* the validation of the points: the handler ends there
handleMouseUp(screen) ==
    LET cartesianPoint == toCartesianCoords(canvas, screen)
        p0 == currentCurvePoints.p0
        p1 == currentCurvePoints.p1
        p3 == currentCurvePoints.p3
        p2 == reflectPoint(cartesianPoint, p3)
    IN  IF bezierDrawingState = "definingP2" /\ p3.isNull
        THEN /\ penError' = TRUE
             /\ UNCHANGED <<bezierDrawingState, currentCurvePoints, elements,
                            nextElementId, currentMousePosCartesian, fullRedraw,
                            dirtyRegions, marks>>
        ELSE
        /\ penError' = FALSE
        /\ currentMousePosCartesian' = NoPoint
        /\ IF bezierDrawingState = "definingP1"
           THEN /\ currentCurvePoints' = [currentCurvePoints EXCEPT !.p1 = cartesianPoint]
                /\ bezierDrawingState' = "p1Defined"
                /\ PenMarkEntireCanvasDirty
                /\ UNCHANGED <<elements, nextElementId>>
           ELSE IF bezierDrawingState = "definingP2"
           THEN IF p0.isNull \/ p1.isNull
                THEN /\ bezierDrawingState' = "idle"
                     /\ currentCurvePoints' = NoCurvePoints
                     /\ PenMarkEntireCanvasDirty
                     /\ UNCHANGED <<elements, nextElementId>>
                ELSE /\ addBezierCurve(p0, p1, p2, p3)
                     /\ currentCurvePoints' =
                            [p0 |-> p3, p1 |-> reflectPoint(p2, p3), p3 |-> NoPoint]
                     /\ bezierDrawingState' = "p1Defined"
           ELSE UNCHANGED <<bezierDrawingState, currentCurvePoints, elements,
                            nextElementId, fullRedraw, dirtyRegions, marks>>

\* a mouse event reaches the canvas while the pen tool is selected
PenEvent ==
    /\ app = "renderer"
    /\ constructed
    /\ currentTool = "pen"
    /\ UNCHANGED <<mvars, bvars, tvars, app, currentTool, framesPending, tick, since,
                   constructed, animationFrameId, canvas, editingElement,
                   selectedElement, overlays, editValue>>

MouseMove ==
    /\ PenEvent
    /\ penError' = FALSE
    /\ \E screen \in PenClicks : handleMouseMove(screen)

MouseDown ==
    /\ PenEvent
    /\ penError' = FALSE
    /\ \E screen \in PenClicks : handleMouseDown(screen)

MouseUp ==
    /\ PenEvent
    /\ bezierDrawingState = "definingP2" => Len(elements) < MaxElements
    /\ \E screen \in PenClicks : handleMouseUp(screen)

\* mousemove, mousedown or mouseup on the canvas while a tool other than the
\* pen is selected: handleMouseMove stores the position of the pointer before it
\* looks at the tool; nothing is selected, dragged or resized, so the select
\* branches of the three handlers change no field
SelectMouseEvent ==
    /\ app = "renderer"
    /\ constructed
    /\ currentTool # "pen"
    /\ \E kind \in {"mousemove", "mousedown", "mouseup"}, screen \in PenClicks :
          currentMousePosCartesian' =
              IF kind = "mousemove" THEN toCartesianCoords(canvas, screen)
                                    ELSE currentMousePosCartesian
    /\ UNCHANGED <<mvars, bvars, tvars, app, svars, rvars, currentTool,
                   bezierDrawingState, currentCurvePoints, penError>>

\* the page's toolbar: a click on the button of the other tool selects it
SwitchTool ==
    /\ app = "renderer"
    /\ constructed
    /\ currentTool' = IF currentTool = "pen" THEN "select" ELSE "pen"
    /\ UNCHANGED <<mvars, bvars, tvars, app, svars, rvars, bezierDrawingState,
                   currentCurvePoints, currentMousePosCartesian, penError>>

(***************************************************************************)
(* canvasFrameworkBuilder.js: CanvasFrameworkBuilder, with LayerManager    *)
(* and the element classes Rectangle and ImageElement.                     *)
(*                                                                         *)
(* zoom, viewX, viewY and the regions of the builder are doubles; they are *)
(* kept as integers in units of 1 / Scale.  A wheel step multiplies the    *)
(* zoom by 9/10 or 11/10, which is exact in these units for MaxZoomSteps   *)
(* steps; the quotient width / zoom of markDirty is rounded down to the    *)
(* unit.                                                                   *)
(***************************************************************************)
RECURSIVE Pow10(_)
Pow10(n) == IF n = 0 THEN 1 ELSE 10 * Pow10(n - 1)

Scale == Pow10(MaxZoomSteps)

\* window.devicePixelRatio || 1
PixelRatios == {2}

\* window.innerWidth x window.innerHeight of the builder's page
BuilderWindowSizes == { [width |-> 12, height |-> 8], [width |-> 9, height |-> 8] }

\* the arguments of calls of the public method markDirty(x, y, width, height),
\* in px; x and y are given from the view position (this.viewX, this.viewY)
MarkInputs ==
    { [x |-> 1, y |-> 1, width |-> 0, height |-> 2] }

\* e.clientX, e.clientY of the mouse and wheel events
ClientPoints == { [x |-> 0, y |-> 0], [x |-> 2, y |-> 0] }

\* new Rectangle(x, y, width, height, fillColor)
Rectangle(x, y, width, height) ==
    [kind |-> "rect", x |-> x, y |-> y, width |-> width, height |-> height,
     isLoaded |-> FALSE]

\* new ImageElement(x, y, src); width and height are those of the image file
ImageElement(x, y, width, height) ==
    [kind |-> "image", x |-> x, y |-> y, width |-> width, height |-> height,
     isLoaded |-> FALSE]

\* new LayerManager(id, name, type) after its addElement calls
\* (layer.visible is a public field the page may clear)
LayerInputs ==
    { [visible |-> TRUE, elements |-> <<ImageElement(2, 1, 3, 2), Rectangle(30, 30, 1, 1)>>],
      [visible |-> FALSE, elements |-> <<Rectangle(1, 1, 2, 2)>>] }

\* the name of element e of layer l in the record of a tick
ElementCode(l, e) == 10 * l + e

\* element.getBounds(), in units of 1 / Scale
getBounds(element, d) ==
    Region(element.x * d * Scale, element.y * d * Scale,
           element.width * d * Scale, element.height * d * Scale)

\* element.getBounds() reads window.canvasApp.dpr: a TypeError without canvasApp
\* intersectsRegions reaches getBounds for a Rectangle and for a loaded image
ReachesGetBounds(element) == element.kind = "rect" \/ element.isLoaded

intersectsRegions(element, rs, d) ==
    IF element.kind = "image" /\ ~element.isLoaded THEN TRUE
    ELSE \E k \in 1..Len(rs) : Builder_regionsOverlap(getBounds(element, d), rs[k])

\* the bounds of an element as a tick sees them, in the shape of
\* getElementScreenBounds: none for an image that is not loaded
ElementBounds(element, d) ==
    IF element.kind = "image" /\ ~element.isLoaded THEN NullBounds
    ELSE [left |-> getBounds(element, d).x, top |-> getBounds(element, d).y,
          width |-> getBounds(element, d).width,
          height |-> getBounds(element, d).height, isNull |-> FALSE]

\* the elements of the visible layers, in the order drawLayers visits them
RECURSIVE LayerCodes(_, _)
LayerCodes(ls, l) ==
    IF l > Len(ls) THEN <<>>
    ELSE (IF ls[l].visible
          THEN [e \in 1..Len(ls[l].elements) |-> ElementCode(l, e)]
          ELSE <<>>) \o LayerCodes(ls, l + 1)

\* every element of every layer, visible or not, in layer order
RECURSIVE AllCodes(_, _)
AllCodes(ls, l) ==
    IF l > Len(ls) THEN <<>>
    ELSE [e \in 1..Len(ls[l].elements) |-> ElementCode(l, e)] \o AllCodes(ls, l + 1)

\* the elements of the layers whose visible flag is false
HiddenCodes(ls) ==
    { code \in { AllCodes(ls, 1)[k] : k \in 1..Len(AllCodes(ls, 1)) } :
        ~ls[code \div 10].visible }

ElementOf(ls, code) == ls[code \div 10].elements[code % 10]

\* drawLayers(regions) of a partial render: the elements element.render is called
\* for, up to the first one whose getBounds throws
RECURSIVE drawLayers(_, _, _, _, _, _)
drawLayers(ls, codes, k, rs, d, hasApp) ==
    IF k > Len(codes) THEN [painted |-> <<>>, threw |-> FALSE]
    ELSE LET element == ElementOf(ls, codes[k])
         IN  IF ReachesGetBounds(element) /\ ~hasApp
             THEN [painted |-> <<>>, threw |-> TRUE]
             ELSE LET rest == drawLayers(ls, codes, k + 1, rs, d, hasApp)
                  IN  IF intersectsRegions(element, rs, d)
                      THEN [painted |-> <<codes[k]>> \o rest.painted, threw |-> rest.threw]
                      ELSE rest

\* this.markDirty(x, y, width, height), with this.viewX, this.viewY, this.zoom
\* as they are when it is called
Builder_markDirty(dr, vx, vy, z, x, y, width, height) ==
    Append(dr, Region((x - vx) * dpr, (y - vy) * dpr,
                      ((width * Scale * Scale) \div z) * dpr,
                      ((height * Scale * Scale) \div z) * dpr))

\* this.dirtyRegions after markEntireCanvasDirty: physicalWidth x physicalHeight,
\* the size updateDimensions gave the canvas
Builder_EntireCanvas ==
    <<Region(0, 0, canvas.width * Scale, canvas.height * Scale)>>

\* mutant: a pending region list takes precedence over the fullRedraw flag
render_regionsFirst(fr, dr) ==
    IF Len(dr) > 0
    THEN LET mergedRegions == Builder_mergeRegions(dr)
             drawn == drawLayers(layers, LayerCodes(layers, 1), 1, mergedRegions,
                                 dpr, canvasApp)
         IN  IF drawn.threw
             THEN [kind |-> "threw", cleared |-> mergedRegions, painted |-> drawn.painted,
                   fullRedraw |-> fr, dirtyRegions |-> dr]
             ELSE [kind |-> "partial", cleared |-> mergedRegions, painted |-> drawn.painted,
                   fullRedraw |-> fr, dirtyRegions |-> <<>>]
    ELSE IF fr
    THEN [kind |-> "full",
          cleared |-> <<Region(0, 0, inner.width * Scale, inner.height * Scale)>>,
          painted |-> LayerCodes(layers, 1), fullRedraw |-> FALSE, dirtyRegions |-> dr]
    ELSE [kind |-> "noop", cleared |-> <<>>, painted |-> <<>>,
          fullRedraw |-> fr, dirtyRegions |-> dr]

(***************************************************************************)
(* render(): the full branch fills the window and draws every layer, and   *)
(* resets fullRedraw only; the partial branch resets dirtyRegions only.    *)
(***************************************************************************)
render(fr, dr) ==
    IF fr
    THEN [kind |-> "full",
          cleared |-> <<Region(0, 0, inner.width * Scale, inner.height * Scale)>>,
          painted |-> LayerCodes(layers, 1), fullRedraw |-> FALSE, dirtyRegions |-> dr]
    ELSE IF Len(dr) > 0
    THEN LET mergedRegions == Builder_mergeRegions(dr)
             drawn == drawLayers(layers, LayerCodes(layers, 1), 1, mergedRegions,
                                 dpr, canvasApp)
         IN  IF drawn.threw
             THEN [kind |-> "threw", cleared |-> mergedRegions, painted |-> drawn.painted,
                   fullRedraw |-> fr, dirtyRegions |-> dr]
             ELSE [kind |-> "partial", cleared |-> mergedRegions, painted |-> drawn.painted,
                   fullRedraw |-> fr, dirtyRegions |-> <<>>]
    ELSE [kind |-> "noop", cleared |-> <<>>, painted |-> <<>>,
          fullRedraw |-> fr, dirtyRegions |-> dr]

\* animate(): render(), then requestAnimationFrame unless render() threw
Builder_animate ==
    /\ app = "builder"
    /\ framesPending > 0
    /\ LET d == render(fullRedraw, dirtyRegions)
       IN  /\ tick' = [kind |-> d.kind, cleared |-> d.cleared, painted |-> d.painted,
                       marks |-> marks, pending |-> Len(dirtyRegions),
                       elems |-> AllCodes(layers, 1), editing |-> NoElement,
                       hidden |-> HiddenCodes(layers),
                       surface |-> Region(0, 0, inner.width * Scale, inner.height * Scale),
                       repeat |-> (marks = "none" /\ tick.kind \in Completed),
                       first |-> (tick.kind = "none"), wasFull |-> fullRedraw]
           /\ fullRedraw' = d.fullRedraw
           /\ dirtyRegions' = d.dirtyRegions
           /\ marks' = IF d.kind = "threw" THEN marks ELSE "none"
           /\ since' = IF d.kind = "threw" THEN since ELSE NoSince
           /\ framesPending' = IF d.kind = "threw" THEN framesPending - 1
                                                   ELSE framesPending
    /\ UNCHANGED <<mvars, pvars, tvars, app, rvars, bvars>>

Builder_startDrag ==
    /\ app = "builder"
    /\ \E e \in ClientPoints :
        /\ lastX' = e.x
        /\ lastY' = e.y
    /\ isDragging' = TRUE
    /\ UNCHANGED <<mvars, pvars, tvars, app, svars, rvars, dpr, inner, canvasApp, layers,
                   viewX, viewY, zoom>>

Builder_drag ==
    /\ app = "builder"
    /\ isDragging
    /\ Len(dirtyRegions) + 2 <= MaxDirty
    /\ \E e \in ClientPoints :
        LET dx == ((e.x - lastX) * Scale) \div dpr
            dy == ((e.y - lastY) * Scale) \div dpr
            old == Builder_markDirty(dirtyRegions, viewX, viewY, zoom,
                                     viewX, viewY, inner.width, inner.height)
        IN  /\ viewX + dx \in (-MaxPan * Scale)..(MaxPan * Scale)
            /\ viewY + dy \in (-MaxPan * Scale)..(MaxPan * Scale)
            /\ viewX' = viewX + dx
            /\ viewY' = viewY + dy
            /\ dirtyRegions' = Builder_markDirty(old, viewX + dx, viewY + dy, zoom,
                                                 viewX + dx, viewY + dy,
                                                 inner.width, inner.height)
            /\ lastX' = e.x
            /\ lastY' = e.y
    /\ marks' = AfterMarkDirty
    /\ UNCHANGED <<mvars, pvars, tvars, app, fullRedraw, framesPending, tick, since, rvars,
                   dpr, inner, canvasApp, layers, zoom, isDragging>>

Builder_endDrag ==
    /\ app = "builder"
    /\ isDragging
    /\ isDragging' = FALSE
    /\ UNCHANGED <<mvars, pvars, tvars, app, svars, rvars, dpr, inner, canvasApp, layers,
                   viewX, viewY, zoom, lastX, lastY>>

\* zoomFactor is 9/10 (deltaY > 0) or 11/10
Builder_zoomView ==
    /\ app = "builder"
    /\ Len(dirtyRegions) + 2 <= MaxDirty
    /\ \E e \in ClientPoints, factor \in {9, 11} :
        LET mouseX == (e.x * Scale) \div dpr
            mouseY == (e.y * Scale) \div dpr
            old == Builder_markDirty(dirtyRegions, viewX, viewY, zoom,
                                     viewX, viewY, inner.width, inner.height)
            z == Max(Scale \div 10, Min((zoom * factor) \div 10, 10 * Scale))
            vx == mouseX - ((mouseX - viewX) * z) \div zoom
            vy == mouseY - ((mouseY - viewY) * z) \div zoom
        IN  \* the step is exact at the resolution of the model
            /\ (zoom * factor) % 10 = 0
            /\ ((mouseX - viewX) * z) % zoom = 0
            /\ ((mouseY - viewY) * z) % zoom = 0
            /\ zoom' = z
            /\ viewX' = vx
            /\ viewY' = vy
            /\ dirtyRegions' = Builder_markDirty(old, vx, vy, z, vx, vy,
                                                 inner.width, inner.height)
    /\ marks' = AfterMarkDirty
    /\ UNCHANGED <<mvars, pvars, tvars, app, fullRedraw, framesPending, tick, since, rvars,
                   dpr, inner, canvasApp, layers, isDragging, lastX, lastY>>

\* a call of the public method markDirty by the page
Builder_callMarkDirtyWith(in) ==
    /\ app = "builder"
    /\ Len(dirtyRegions) < MaxDirty
    /\ dirtyRegions' = Builder_markDirty(dirtyRegions, viewX, viewY, zoom,
                                         viewX + in.x * Scale, viewY + in.y * Scale,
                                         in.width, in.height)
    /\ marks' = AfterMarkDirty
    /\ UNCHANGED <<mvars, pvars, tvars, app, fullRedraw, framesPending, tick, since, rvars, bvars>>

Builder_callMarkDirty ==
    /\ app = "builder"
    /\ \E in \in MarkInputs : Builder_callMarkDirtyWith(in)

\* the listener bindEvents hands to window.addEventListener('resize', ...):
\* this.handleResize as it is when the constructor calls bindEvents, which is
\* before the constructor assigns it
ResizeListener == "undefined"

\* the window is resized: the resize event calls the listener, if there is one;
\* debouncedResize then calls updateDimensions (new canvas size,
\* markEntireCanvasDirty)
Builder_resize ==
    /\ app = "builder"
    /\ \E size \in BuilderWindowSizes \ {inner} : inner' = size
    /\ IF ResizeListener = "debouncedResize"
       THEN /\ canvas' = [width |-> inner'.width * dpr, height |-> inner'.height * dpr]
            /\ fullRedraw' = TRUE
            /\ dirtyRegions' = <<Region(0, 0, canvas'.width * Scale,
                                        canvas'.height * Scale)>>
            /\ marks' = "all"
            /\ since' = [since EXCEPT !.resized = TRUE]
       ELSE /\ since' = [since EXCEPT !.resized = TRUE]
            /\ UNCHANGED <<canvas, fullRedraw, dirtyRegions, marks>>
    /\ UNCHANGED <<mvars, pvars, tvars, app, framesPending, tick, constructed, animationFrameId,
                   elements, nextElementId, editingElement, selectedElement, overlays,
                   editValue, dpr, canvasApp, layers, viewX, viewY, zoom, isDragging,
                   lastX, lastY>>

\* addLayer(layer) with an instance of LayerManager
Builder_addLayer ==
    /\ app = "builder"
    /\ Len(layers) < MaxLayers
    /\ \E layer \in LayerInputs : layers' = Append(layers, layer)
    /\ fullRedraw' = TRUE
    /\ dirtyRegions' = Builder_EntireCanvas
    /\ marks' = "all"
    /\ UNCHANGED <<mvars, pvars, tvars, app, since, framesPending, tick, rvars, dpr, inner, canvasApp,
                   viewX, viewY, zoom, isDragging, lastX, lastY>>

\* ImageElement's image.onload: isLoaded, then canvasApp.markEntireCanvasDirty()
\* if the page has set window.canvasApp
Builder_imageOnload ==
    /\ app = "builder"
    /\ \E l \in 1..Len(layers) : \E e \in 1..Len(layers[l].elements) :
        /\ layers[l].elements[e].kind = "image"
        /\ ~layers[l].elements[e].isLoaded
        /\ layers' = [layers EXCEPT ![l].elements[e].isLoaded = TRUE]
    /\ IF canvasApp
       THEN /\ fullRedraw' = TRUE
            /\ dirtyRegions' = Builder_EntireCanvas
            /\ marks' = "all"
       ELSE UNCHANGED <<fullRedraw, dirtyRegions, marks>>
    /\ UNCHANGED <<mvars, pvars, tvars, app, since, framesPending, tick, rvars, dpr, inner, canvasApp,
                   viewX, viewY, zoom, isDragging, lastX, lastY>>

(***************************************************************************)
(* Spec: one of the two applications, from its construction on.            *)
(***************************************************************************)
NoTick ==
    [kind |-> "none", cleared |-> <<>>, painted |-> <<>>, marks |-> "none",
     pending |-> 0, elems |-> <<>>, editing |-> NoElement, hidden |-> {},
     surface |-> Region(0, 0, 0, 0), repeat |-> FALSE, first |-> FALSE,
     wasFull |-> FALSE]

\* the fields of CartesianRenderer as the constructor sets them
RendererCore ==
    /\ constructed = FALSE
    /\ animationFrameId = NoFrame
    /\ elements = <<>>
    /\ nextElementId = 0
    /\ editingElement = NoElement
    /\ selectedElement = NoElement
    /\ overlays = {}
    /\ editValue = ""
    /\ penError = FALSE
    /\ timers = {}
    /\ editBlurTimeout = NoTimeout
    /\ nextTimerId = 1
    /\ focused = FALSE

\* no curve is in progress
PenIdle ==
    /\ bezierDrawingState = "idle"
    /\ currentCurvePoints = NoCurvePoints
    /\ currentMousePosCartesian = NoPoint

RendererFields == RendererCore /\ PenIdle

NoRenderer ==
    /\ RendererFields
    /\ canvas = [width |-> 0, height |-> 0]
    /\ currentTool = "select"

\* the fields of CanvasFrameworkBuilder as the constructor sets them
BuilderFields ==
    /\ layers = <<>>
    /\ viewX = 0 /\ viewY = 0
    /\ zoom = Scale
    /\ isDragging = FALSE
    /\ lastX = 0 /\ lastY = 0

NoBuilder ==
    /\ BuilderFields
    /\ dpr = 1
    /\ inner = [width |-> 0, height |-> 0]
    /\ canvasApp = FALSE

\* no call of a copy of regionsOverlap yet
NoOverlaps == [builder |-> FALSE, rectangle |-> FALSE, image |-> FALSE]

\* no call of mergeRegions yet
NoObjects == [heap |-> <<>>, regions |-> <<>>, merged |-> <<>>]

MergeIdle ==
    /\ mpc = "idle"
    /\ regions = <<>> /\ merged = <<>> /\ remerged = <<>> /\ builderMerged = <<>>
    /\ overlap = FALSE
    /\ combined = Region(0, 0, 0, 0)
    /\ passes = <<>>
    /\ objects = NoObjects
    /\ overlapCopies = NoOverlaps

\* new CartesianRenderer(canvasId), up to the call of start(): setupCanvas has
\* sized the canvas to the window and marked it entirely dirty
InitCartesian(tool) ==
    /\ app = "renderer"
    /\ RendererFields
    /\ currentTool = tool
    /\ canvas \in WindowSizes
    /\ dirtyRegions = EntireCanvas(canvas)
    /\ fullRedraw = TRUE
    /\ marks = "all"
    /\ since = NoSince
    /\ framesPending = 0
    /\ NoBuilder

\* the page's toolbar starts with the select tool
InitRenderer == InitCartesian("select")

\* new CanvasFrameworkBuilder(): updateDimensions marked the canvas entirely
\* dirty, the constructor then emptied dirtyRegions, set fullRedraw and
\* requested the first frame
InitBuilder ==
    /\ app = "builder"
    /\ BuilderFields
    /\ dpr \in PixelRatios
    /\ inner \in BuilderWindowSizes
    /\ canvasApp \in BOOLEAN
    /\ dirtyRegions = <<>>
    /\ fullRedraw = TRUE
    /\ marks = "all"
    /\ since = NoSince
    /\ framesPending = 1
    /\ RendererFields
    /\ currentTool = "select"
    /\ canvas = [width |-> inner.width * dpr, height |-> inner.height * dpr]

Init ==
    /\ MergeIdle
    /\ tick = NoTick
    /\ InitRenderer \/ InitBuilder

Next ==
    \/ Start
    \/ Animate
    \/ AddElement
    \/ AddText
    \/ AddImage
    \/ ImageOnload
    \/ ImageOnerror
    \/ HandleResize
    \/ HandleDoubleClick
    \/ StartEditing
    \/ EditInput
    \/ StopEditing
    \/ Builder_animate
    \/ Builder_startDrag
    \/ Builder_drag
    \/ Builder_endDrag
    \/ Builder_zoomView
    \/ Builder_callMarkDirty
    \/ Builder_resize
    \/ Builder_addLayer
    \/ Builder_imageOnload

Spec == Init /\ [][Next]_vars

(***************************************************************************)
(* SpecHandlers: the three mouse handlers of the pen tool as functions of  *)
(* the renderer fields they read.  bezierDrawingState and the points of    *)
(* currentCurvePoints are public fields of the renderer; handleMouseUp     *)
(* validates them, so they are drawn here from every value the validation  *)
(* provides for, null included.                                            *)
(***************************************************************************)
\* a point of the curve in progress: null, or where the pointer can be
PointValues(cv) == {NoPoint} \cup { toCartesianCoords(cv, screen) : screen \in PenClicks }

InitHandlers ==
    /\ MergeIdle
    /\ tick = NoTick
    /\ app = "renderer"
    /\ RendererCore
    /\ NoBuilder
    /\ currentTool = "pen"
    /\ canvas \in WindowSizes
    /\ dirtyRegions = EntireCanvas(canvas)
    /\ fullRedraw = TRUE
    /\ marks = "all"
    /\ since = NoSince
    /\ framesPending = 0
    /\ bezierDrawingState \in {"idle", "definingP1", "p1Defined", "definingP2"}
    /\ currentCurvePoints \in [p0 : PointValues(canvas), p1 : PointValues(canvas),
                                p3 : PointValues(canvas)]
    /\ currentMousePosCartesian = NoPoint

NextHandlers ==
    \/ Start
    \/ Animate
    \/ MouseDown
    \/ MouseMove
    \/ MouseUp

SpecHandlers == InitHandlers /\ [][NextHandlers]_vars

(***************************************************************************)
(* SpecLoop: CartesianRenderer whose page calls start() and stop().  After *)
(* stop() the listeners of the canvas are gone, so the page only calls     *)
(* the methods of the renderer and startEditing.                           *)
(***************************************************************************)
InitLoop ==
    /\ MergeIdle
    /\ tick = NoTick
    /\ InitRenderer

NextLoop ==
    \/ Start
    \/ Animate
    \/ StartLoop
    \/ Stop
    \/ AddElement
    \/ AddText
    \/ StartEditing

SpecLoop == InitLoop /\ [][NextLoop]_vars

(***************************************************************************)
(* SpecEdit: CartesianRenderer with the select tool, texts being edited    *)
(* while the overlay loses and regains the focus and its blur timeouts     *)
(* run.                                                                    *)
(***************************************************************************)
InitEdit ==
    /\ MergeIdle
    /\ tick = NoTick
    /\ InitRenderer

NextEdit ==
    \/ Start
    \/ Animate
    \/ AddText
    \/ HandleDoubleClick
    \/ StartEditing
    \/ EditInput
    \/ StopEditing
    \/ EditBlur
    \/ EditFocus
    \/ BlurTimeout

SpecEdit == InitEdit /\ [][NextEdit]_vars

(***************************************************************************)
(* SpecPen: CartesianRenderer with the pen tool selected in the toolbar    *)
(* when the page starts.  No text is edited and the window keeps its size  *)
(* while curves are drawn.                                                 *)
(***************************************************************************)
InitPen ==
    /\ MergeIdle
    /\ tick = NoTick
    /\ InitCartesian("pen")

NextPen ==
    \/ Start
    \/ Animate
    \/ AddElement
    \/ AddText
    \/ AddImage
    \/ ImageOnload
    \/ ImageOnerror
    \/ MouseDown
    \/ MouseMove
    \/ MouseUp
    \/ SelectMouseEvent
    \/ SwitchTool

SpecPen == InitPen /\ [][NextPen]_vars

(***************************************************************************)
(* SpecMerge: the inputs of the region functions and their application.    *)
(***************************************************************************)
\* regions of non-negative width and height inside the square 0..MaxCoord
InputRegions ==
    { r \in [x : 0..MaxCoord, y : 0..MaxCoord,
             width : 0..MaxCoord, height : 0..MaxCoord] :
        r.x + r.width <= MaxCoord /\ r.y + r.height <= MaxCoord }

NoRegion == Region(0, 0, 0, 0)

InitMerge ==
    /\ mpc = "input"
    /\ \E n \in 0..MaxRegions : regions \in [1..n -> InputRegions]
    /\ merged = <<>>
    /\ remerged = <<>>
    /\ builderMerged = <<>>
    /\ overlap = FALSE
    /\ combined = NoRegion
    /\ passes = <<>>
    /\ objects = NoObjects
    /\ overlapCopies = NoOverlaps
    /\ app = "none"
    /\ NoRenderer
    /\ NoBuilder
    /\ dirtyRegions = <<>> /\ fullRedraw = FALSE /\ framesPending = 0
    /\ tick = NoTick /\ marks = "none" /\ since = NoSince

\* merged = mergeRegions(regions), by both copies of the function
MergeRegions ==
    /\ mpc = "input"
    /\ merged' = mergeRegions(regions)
    /\ builderMerged' = Builder_mergeRegions(regions)
    /\ objects' = mergeRegionsOnHeap(regions, [i \in 1..Len(regions) |-> i])
    /\ passes' = IF Len(regions) <= 1 THEN <<>>
                                      ELSE mergePasses(regions, Len(regions) + 1)
    /\ mpc' = "merged"
    /\ UNCHANGED <<regions, overlapCopies, remerged, overlap, combined, app, svars,
                   rvars, bvars, pvars, tvars>>

\* mergeRegions applied to its own output
MergeAgain ==
    /\ mpc = "merged"
    /\ remerged' = mergeRegions(merged)
    /\ mpc' = "remerged"
    /\ UNCHANGED <<regions, passes, objects, overlapCopies, merged, builderMerged, overlap,
                   combined, app, svars, rvars, bvars, pvars, tvars>>

\* regionsOverlap applied to the first two regions of the list
RegionsOverlap ==
    /\ mpc = "input"
    /\ Len(regions) >= 2
    /\ overlap' = regionsOverlap(regions[1], regions[2])
    /\ overlapCopies' = [builder |-> Builder_regionsOverlap(regions[1], regions[2]),
                         rectangle |-> Rectangle_regionsOverlap(regions[1], regions[2]),
                         image |-> ImageElement_regionsOverlap(regions[1], regions[2])]
    /\ mpc' = "overlap"
    /\ UNCHANGED <<regions, passes, objects, merged, remerged, builderMerged, combined,
                   app, svars, rvars, bvars, pvars, tvars>>

\* combineRegions applied to the first two regions of the list
CombineRegions ==
    /\ mpc = "input"
    /\ Len(regions) >= 2
    /\ combined' = combineRegions(regions[1], regions[2])
    /\ mpc' = "combined"
    /\ UNCHANGED <<regions, passes, objects, overlapCopies, merged, remerged,
                   builderMerged, overlap, app, svars, rvars, bvars, pvars, tvars>>

NextMerge == MergeRegions \/ MergeAgain \/ RegionsOverlap \/ CombineRegions

SpecMerge == InitMerge /\ [][NextMerge]_vars

(***************************************************************************)
(* Geometry the claims are stated in, independent of the code: a region    *)
(* is the closed rectangle of its points.                                  *)
(***************************************************************************)
Points(r) ==
    { <<px, py>> : px \in r.x..(r.x + r.width), py \in r.y..(r.y + r.height) }

\* the two closed rectangles share at least one point (an edge or corner counts)
Touch(a, b) == Points(a) \cap Points(b) # {}

\* inside lies inside outer
Contains(outer, inside) == Points(inside) \subseteq Points(outer)

\* one rectangle lies strictly entirely left of, right of, above or below the other
Apart(a, b) ==
    \/ \A p \in Points(a), q \in Points(b) : p[1] < q[1]
    \/ \A p \in Points(a), q \in Points(b) : q[1] < p[1]
    \/ \A p \in Points(a), q \in Points(b) : p[2] < q[2]
    \/ \A p \in Points(a), q \in Points(b) : q[2] < p[2]

Range(s) == { s[i] : i \in 1..Len(s) }

PairwiseApart(s) ==
    \A i, j \in 1..Len(s) : i < j => ~Touch(s[i], s[j])

\* the indices reachable from those of S through regions that touch
RECURSIVE TouchClosure(_, _)
TouchClosure(s, S) ==
    LET T == S \cup { j \in 1..Len(s) : \E i \in S : Touch(s[i], s[j]) }
    IN  IF T = S THEN S ELSE TouchClosure(s, T)

Connected(s) == Len(s) >= 1 /\ TouchClosure(s, {1}) = 1..Len(s)

Orderings(s) ==
    { [i \in 1..Len(s) |-> s[f[i]]] : f \in Permutations(1..Len(s)) }

MergeDone == mpc \in {"merged", "remerged"}

(***************************************************************************)
(* C1: no two distinct regions of the list mergeRegions returns overlap,   *)
(* touching edges counted as overlap; the same holds of                    *)
(* CanvasFrameworkBuilder.mergeRegions.                                    *)
(***************************************************************************)
C1_MergeNonOverlap ==
    MergeDone => PairwiseApart(merged) /\ PairwiseApart(builderMerged)

\* a merge happened and two regions are left, which must be apart
C1_Witness ==
    /\ mpc = "merged"
    /\ Len(regions) = 3
    /\ Len(merged) = 2
    /\ merged[1] \notin Range(regions)

(***************************************************************************)
(* C2: every input region is fully contained in at least one region of     *)
(* mergeRegions(R): the output never covers less than the input.           *)
(***************************************************************************)
C2_MergeCoverage ==
    MergeDone =>
        \A i \in 1..Len(regions) : \E k \in 1..Len(merged) :
            Contains(merged[k], regions[i])

\* a bounding box that is none of the inputs was produced
C2_Witness ==
    /\ mpc = "merged"
    /\ Len(merged) < Len(regions)
    /\ \E k \in 1..Len(merged) : merged[k] \notin Range(regions)

(***************************************************************************)
(* C3: if the input regions are connected under the transitive closure of  *)
(* overlap, mergeRegions returns exactly one region, whatever the order    *)
(* of the list (the initial states hold every ordering).                   *)
(***************************************************************************)
C3_ChainMergesToOne ==
    (MergeDone /\ Connected(regions)) => Len(merged) = 1

\* a chain that one pass leaves in two pieces: the first and second region do
\* not touch, the third joins them
C3_Witness ==
    /\ mpc = "merged"
    /\ Len(regions) = 3
    /\ Connected(regions)
    /\ ~Touch(regions[1], regions[2])
    /\ Len(mergeLoop_singlePass(regions)) = 2
    /\ Len(merged) = 1

(***************************************************************************)
(* C4: mergeRegions is order-insensitive: every permutation of the input   *)
(* list yields the same set of rectangles.                                 *)
(***************************************************************************)
C4_MergeOrderInsensitive ==
    MergeDone =>
        \A p \in Orderings(regions) :
            /\ Range(mergeRegions(p)) = Range(merged)
            /\ Len(mergeRegions(p)) = Len(merged)

\* some ordering returns the rectangles in another order
C4_Witness ==
    /\ mpc = "merged"
    /\ Len(merged) >= 2
    /\ Len(merged) < Len(regions)
    /\ \E p \in Orderings(regions) : mergeRegions(p) # merged

(***************************************************************************)
(* C5: mergeRegions is idempotent: applied to its own output it performs   *)
(* no merge and returns the same regions.                                  *)
(***************************************************************************)
C5_MergeIdempotent ==
    mpc = "remerged" => remerged = merged

\* the first application merged, and left more than one region to rescan
C5_Witness ==
    /\ mpc = "remerged"
    /\ Len(merged) >= 2
    /\ Len(merged) < Len(regions)

(***************************************************************************)
(* C6: pairwise non-overlapping input (the empty list and a single region  *)
(* included) is returned as it is: none changed, dropped or added.         *)
(***************************************************************************)
C6_DisjointUnchanged ==
    (MergeDone /\ PairwiseApart(regions)) =>
        merged = regions /\ builderMerged = regions

\* three regions, pairwise apart
C6_Witness ==
    /\ mpc = "merged"
    /\ Len(regions) = 3
    /\ PairwiseApart(regions)

(***************************************************************************)
(* C7: regionsOverlap(a, b) is false exactly when one region lies strictly *)
(* entirely left of, right of, above or below the other; regions sharing   *)
(* only an edge or a corner overlap; and it is symmetric.                  *)
(***************************************************************************)
C7_OverlapTouching ==
    mpc = "overlap" =>
        /\ overlap = ~Apart(regions[1], regions[2])
        /\ overlap = Touch(regions[1], regions[2])
        /\ overlap = regionsOverlap(regions[2], regions[1])
        /\ overlap = Builder_regionsOverlap(regions[1], regions[2])

\* the far edge of one region is the near edge of the other: they only touch
C7_Witness ==
    /\ mpc = "overlap"
    /\ overlap
    /\ regions[1].x + regions[1].width = regions[2].x
    /\ regions[2].width > 0

(***************************************************************************)
(* C8: combineRegions(a, b) is the axis-aligned bounding rectangle of a    *)
(* and b: x and y are the minima, the far edges the maxima, it contains    *)
(* both, no smaller rectangle does, and it is symmetric.                   *)
(***************************************************************************)
C8_CombineBoundingBox ==
    mpc = "combined" =>
        LET a == regions[1]
            b == regions[2]
        IN  /\ combined.x = Min(a.x, b.x)
            /\ combined.y = Min(a.y, b.y)
            /\ combined.x + combined.width = Max(a.x + a.width, b.x + b.width)
            /\ combined.y + combined.height = Max(a.y + a.height, b.y + b.height)
            /\ Contains(combined, a) /\ Contains(combined, b)
            /\ \A r \in InputRegions :
                   (Contains(r, a) /\ Contains(r, b)) => Contains(r, combined)
            /\ combined = combineRegions(b, a)
            /\ combined = Builder_combineRegions(a, b)

\* the bounding rectangle is neither of its arguments
C8_Witness ==
    /\ mpc = "combined"
    /\ combined # regions[1]
    /\ combined # regions[2]
    /\ ~Touch(regions[1], regions[2])


(***************************************************************************)
(* The ticks of the two applications (Spec).                               *)
(***************************************************************************)
\* the elements a full redraw is to paint: every element of the scene that is
\* shown, i.e. not the text being edited in its textarea and not in a hidden layer
Shown(t) == SelectSeq(t.elems, LAMBDA id : id # t.editing /\ id \notin t.hidden)

C10_SingleConsumption ==
    /\ (tick.kind \in {"full", "partial"} /\ marks = "none") =>
            (dirtyRegions = <<>> /\ ~fullRedraw)
    /\ tick.repeat => (tick.cleared = <<>> /\ tick.painted = <<>>)

\* C11: a tick that starts with fullRedraw false and no pending region clears
\* nothing and paints nothing, in both classes.
C11_NoopTick ==
    (tick.kind # "none" /\ ~tick.wasFull /\ tick.pending = 0) =>
        (tick.cleared = <<>> /\ tick.painted = <<>>)

\* an idle tick of a scene that has elements to paint
C11_Witness ==
    /\ tick.kind = "noop"
    /\ ~tick.wasFull
    /\ tick.pending = 0
    /\ Len(Shown(tick)) >= 1

\* C12 as stated: a mark call appends its region iff the region's width and
\* height are both positive (a negative x or y alone does not drop it), a dropped
\* call leaves the pending list and fullRedraw as they were, and the pending list
\* never holds a region of non-positive width or height; in both classes.
C12_MarkFilter ==
    [][ /\ \A i \in 1..Len(dirtyRegions') :
              dirtyRegions'[i].width > 0 /\ dirtyRegions'[i].height > 0
        /\ since'.lastMark.called =>
              /\ since'.lastMark.appended <=> since'.lastMark.positive
              /\ ~since'.lastMark.appended => since'.lastMark.kept
        /\ \A in \in MarkInputs :
              Builder_callMarkDirtyWith(in) =>
                  IF in.width > 0 /\ in.height > 0
                  THEN Len(dirtyRegions') = Len(dirtyRegions) + 1
                  ELSE dirtyRegions' = dirtyRegions /\ fullRedraw' = fullRedraw
      ]_vars

\* a tick that takes the partial branch of draw() or render()
PartialTick == (Animate \/ Builder_animate) /\ ~fullRedraw /\ Len(dirtyRegions) > 0

PaintedIn(t, id) == \E k \in 1..Len(t.painted) : t.painted[k] = id

\* C13 as stated: in a partial tick an element whose screen bounds cannot be
\* computed (null bounds) is painted, whatever the dirty regions are.
C13_ConservativeInclusion ==
    [][ PartialTick =>
          /\ app = "renderer" =>
                \A i \in 1..Len(elements) :
                    getElementScreenBounds(canvas, selectedElement, elements[i]).isNull
                        => PaintedIn(tick', elements[i].id)
          /\ app = "builder" =>
                \A k \in 1..Len(LayerCodes(layers, 1)) :
                    ElementBounds(ElementOf(layers, LayerCodes(layers, 1)[k]), dpr).isNull
                        => PaintedIn(tick', LayerCodes(layers, 1)[k])
      ]_vars

\* bounds that are valid for a partial tick: computed, of positive width and height
ValidBounds(bounds) == ~bounds.isNull /\ bounds.width > 0 /\ bounds.height > 0

OverlapsOneOf(bounds, rs, overlaps(_, _)) ==
    \E k \in 1..Len(rs) :
        overlaps(Region(bounds.left, bounds.top, bounds.width, bounds.height), rs[k])

\* C14 as stated: in a partial tick an element with valid bounds (other than the
\* text being edited) is painted if and only if its screen bounds overlap, per
\* regionsOverlap, at least one of the merged dirty regions.
C14_PaintedIffOverlap ==
    [][ PartialTick =>
          /\ app = "renderer" =>
                \A i \in 1..Len(elements) :
                    LET bounds == getElementScreenBounds(canvas, selectedElement,
                                                         elements[i])
                    IN  (ValidBounds(bounds) /\ elements[i].id # editingElement) =>
                            (PaintedIn(tick', elements[i].id) <=>
                                OverlapsOneOf(bounds, mergeRegions(dirtyRegions),
                                              regionsOverlap))
          /\ app = "builder" =>
                \A k \in 1..Len(LayerCodes(layers, 1)) :
                    LET code == LayerCodes(layers, 1)[k]
                        bounds == ElementBounds(ElementOf(layers, code), dpr)
                    IN  ValidBounds(bounds) =>
                            (PaintedIn(tick', code) <=>
                                OverlapsOneOf(bounds, Builder_mergeRegions(dirtyRegions),
                                              Builder_regionsOverlap))
      ]_vars

\* s is t with some of its members left out, the others in their order
RECURSIVE IsSubsequence(_, _)
IsSubsequence(s, t) ==
    IF s = <<>> THEN TRUE
    ELSE IF t = <<>> THEN FALSE
    ELSE IF Head(s) = Head(t) THEN IsSubsequence(Tail(s), Tail(t))
    ELSE IsSubsequence(s, Tail(t))

\* C15: in every tick, full or partial, the elements painted are a subsequence
\* of the element list in its stored order: no element is painted before one
\* that precedes it in the list.
C15_DrawOrder == IsSubsequence(tick.painted, tick.elems)

\* a tick that painted two elements or more
C15_Witness ==
    /\ app = "renderer"
    /\ tick.kind = "full"
    /\ Len(tick.painted) >= 2

\* C16 as stated: when painting an element throws during a tick, the elements
\* after it are still painted (those whose painting cannot fail are checked: the
\* images of visible layers that are not loaded), the dirty state is reset at
\* the end of the tick, and the next tick is scheduled.
C16_FailureContained ==
    [][ ((Animate \/ Builder_animate) /\ tick'.kind = "threw") =>
          /\ \A k \in 1..Len(LayerCodes(layers, 1)) :
                ~ReachesGetBounds(ElementOf(layers, LayerCodes(layers, 1)[k]))
                    => PaintedIn(tick', LayerCodes(layers, 1)[k])
          /\ dirtyRegions' = <<>>
          /\ ~fullRedraw'
          /\ framesPending' > 0
      ]_vars

\* C17 as stated: in CartesianRenderer every animate() runs draw() to its end
\* and requests the next animation frame, whatever is pending and whatever the
\* element list holds: the tick loop never stalls.
C17_LoopNeverStalls ==
    (app = "renderer" /\ constructed) =>
        (tick.kind \in Completed /\ framesPending > 0 /\ animationFrameId # NoFrame)

\* a tick of either class
TickStep == Start \/ Animate \/ Builder_animate

\* rectangle outer covers rectangle r
Covers(outer, r) ==
    /\ outer.x <= r.x
    /\ outer.y <= r.y
    /\ r.x + r.width <= outer.x + outer.width
    /\ r.y + r.height <= outer.y + outer.height

C19_ResizeFullRedraw ==
    [][ /\ (HandleResize \/ Builder_resize) => fullRedraw'
        /\ (TickStep /\ since.resized) => tick'.kind = "full"
      ]_vars

\* C20: the first tick after construction is a full redraw, whatever marks
\* were made before it.
C20_FirstTickFull == tick.first => tick.kind = "full"

\* a first tick of the builder that found two regions pending
C20_Witness ==
    /\ app = "builder"
    /\ tick.first
    /\ tick.kind = "full"
    /\ tick.pending >= 2

\* C21 as stated: on a full redraw of CartesianRenderer every element of the
\* list, whatever its type (rect, text, image, bezier), is painted, except the
\* text element being edited.
C21_EveryTypeRendered ==
    [][ ((Start \/ Animate) /\ tick'.kind = "full") =>
            \A i \in 1..Len(elements) :
                (elements[i].type \in {"rect", "text", "image", "bezier"}
                    /\ elements[i].id # editingElement)
                        => PaintedIn(tick', elements[i].id)
      ]_vars

\* a pen-tool mouse event that changes the curve in progress
PenChange ==
    \/ MouseDown /\ bezierDrawingState \in {"idle", "p1Defined"}
    \/ MouseMove /\ bezierDrawingState \in {"definingP1", "definingP2"}
    \/ MouseUp /\ bezierDrawingState \in {"definingP1", "definingP2"}

PenCommit ==
    /\ MouseUp
    /\ bezierDrawingState = "definingP2"
    /\ ~currentCurvePoints.p0.isNull
    /\ ~currentCurvePoints.p1.isNull
    /\ ~currentCurvePoints.p3.isNull

\* C23: pen-tool chaining.  When a mouseup commits a segment, the start point
\* p0 of the next segment in progress is the end point p3 of the segment just
\* committed (the p3 handed to addBezierCurve, the fourth point of the element
\* stored), and p3 of the segment in progress is null.
C23_PenChaining ==
    [][ PenCommit =>
          /\ Len(elements') = Len(elements) + 1
          /\ elements'[Len(elements')].type = "bezier"
          /\ elements'[Len(elements')].points[4] = currentCurvePoints.p3
          /\ currentCurvePoints'.p0 = currentCurvePoints.p3
          /\ ~currentCurvePoints'.p0.isNull
          /\ currentCurvePoints'.p3.isNull
      ]_vars

\* two segments were committed in a row, the first from one point to a different
\* one, the second starting where the first ends
C23_Witness ==
    /\ Len(elements) = 2
    /\ elements[1].type = "bezier" /\ elements[2].type = "bezier"
    /\ elements[1].points[1] # elements[1].points[4]
    /\ elements[2].points[1] = elements[1].points[4]
    /\ currentCurvePoints.p0 = elements[2].points[4]
    /\ currentCurvePoints.p3.isNull

\* the rectangles rs together cover the rectangle surface: every cell of the
\* grid that the edges of the rectangles cut out of surface lies in one of them
CoveredBy(rs, surface) ==
    LET xs == { x \in {surface.x, surface.x + surface.width}
                        \cup UNION { {rs[k].x, rs[k].x + rs[k].width} : k \in 1..Len(rs) } :
                    surface.x <= x /\ x <= surface.x + surface.width }
        ys == { y \in {surface.y, surface.y + surface.height}
                        \cup UNION { {rs[k].y, rs[k].y + rs[k].height} : k \in 1..Len(rs) } :
                    surface.y <= y /\ y <= surface.y + surface.height }
    IN  \A x1, x2 \in xs, y1, y2 \in ys :
            (/\ x1 < x2 /\ ~\E x \in xs : x1 < x /\ x < x2
             /\ y1 < y2 /\ ~\E y \in ys : y1 < y /\ y < y2)
                => \E k \in 1..Len(rs) :
                       Covers(rs[k], Region(x1, y1, x2 - x1, y2 - y1))

\* the regions a handler pushed to dirtyRegions
Pushed == SubSeq(dirtyRegions', Len(dirtyRegions) + 1, Len(dirtyRegions'))

\* C27 as stated: in CanvasFrameworkBuilder, after a pan (drag() while dragging)
\* or a zoom (zoomView()), at every zoom level and view offset, the regions
\* pushed to dirtyRegions together cover the whole physical canvas
\* {0, 0, physicalWidth, physicalHeight}.  (Checked where the canvas has the
\* size of the window, so that a window resized without the canvas is not what
\* the formula fails on.)
C27_PanZoomCoversCanvas ==
    [][ ((Builder_drag \/ Builder_zoomView)
            /\ canvas = [width |-> inner.width * dpr, height |-> inner.height * dpr])
          => CoveredBy(Pushed, Builder_EntireCanvas[1]) ]_vars

\* C28 as stated: while a text element is being edited no tick paints it, in
\* the full and in the partial branch; once editing stops, the following tick
\* paints it again (checked for an element that the tick before found edited
\* and that is no longer edited: stopEditing has left it selected).
C28_EditedTextHidden ==
    [][ (Start \/ Animate) =>
          /\ editingElement # NoElement => ~PaintedIn(tick', editingElement)
          /\ (/\ editingElement = NoElement
              /\ selectedElement # NoElement
              /\ tick.editing = selectedElement)
                => PaintedIn(tick', selectedElement)
      ]_vars

\* C29: at most one text-edit session is active at any time.  After any
\* sequence of startEditing, stopEditing, double clicks and keys there is at most
\* one edit overlay, it exists exactly while editingElement is set and it is the
\* overlay of that element; startEditing while an element is being edited first
\* stops that session, committing the value of its overlay as the element's text.
C29_OneEditSession ==
    [][ /\ Cardinality(overlays') <= 1
        /\ overlays' = IF editingElement' = NoElement THEN {} ELSE {editingElement'}
        /\ (StartEditing /\ editingElement # NoElement) =>
              /\ editingElement' # NoElement
              /\ elements'[IndexOf(elements, editingElement)].text = editValue
      ]_vars

\* startEditing on the second text has committed a changed text of the first,
\* whose session it ended
C29_Witness ==
    /\ Len(elements) = 2
    /\ elements[1].type = "text" /\ elements[2].type = "text"
    /\ elements[1].text = "abcd"
    /\ editingElement = elements[2].id
    /\ overlays = {elements[2].id}
    /\ selectedElement = NoElement

\* the region markDirty is to push for an element: its screen bounds widened
\* by the buffer
DirtyRegionOf(cv, selected, element) ==
    LET bounds == getElementScreenBounds(cv, selected, element)
    IN  Region(bounds.left - buffer, bounds.top - buffer,
               bounds.width + buffer * 2, bounds.height + buffer * 2)

\* C30: stopEditing with cancel = true leaves the element's text and metrics
\* unchanged; with cancel = false it sets the element's text to the overlay's
\* value; in both cases the session ends with editingElement = null, the edited
\* element selected and the element marked dirty (its region is pushed).
\* stopEditing when nothing is being edited changes no state.
C30_StopEditing ==
    [][ /\ \A cancel \in BOOLEAN :
              (/\ app = "renderer"
               /\ constructed
               /\ editingElement \in overlays
               /\ Edited(stopEditing(EditState, cancel)))
              => LET i == IndexOf(elements, editingElement)
                 IN  /\ cancel => elements'[i] = elements[i]
                     /\ ~cancel => elements'[i].text = editValue
                     /\ editingElement' = NoElement
                     /\ selectedElement' = editingElement
                     /\ overlays' = {}
                     /\ Len(dirtyRegions') > Len(dirtyRegions)
                     /\ dirtyRegions'[Len(dirtyRegions')] =
                            DirtyRegionOf(canvas, selectedElement', elements'[i])
        /\ (app = "renderer" /\ editingElement = NoElement) =>
              \A cancel \in BOOLEAN : stopEditing(EditState, cancel) = EditState
      ]_vars

\* C31: a blur timeout set during one edit session never stops a later one.
\* When the callback of a timeout runs whose textarea has left the document (its
\* session was stopped), it leaves the element being edited in its session.
C31_NoStaleTimeout ==
    [][ \A t \in timers :
            (BlurTimeoutOf(t) /\ ~t.live) => editingElement' = editingElement
      ]_vars

\* C32: the pen-tool drawing state is always one of idle, definingP1,
\* p1Defined, definingP2, and it changes only from idle to definingP1 on
\* mousedown, from definingP1 to p1Defined on mouseup, from p1Defined to
\* definingP2 on mousedown, from definingP2 to p1Defined on a mouseup that commits
\* a segment, and from definingP2 to idle on a mouseup with a missing point;
\* mousemove never changes it, and no step taken while another tool is selected
\* changes it.
C32_PenStateMachine ==
    [][ /\ bezierDrawingState' \in {"idle", "definingP1", "p1Defined", "definingP2"}
        /\ bezierDrawingState' # bezierDrawingState =>
              \/ /\ MouseDown
                 /\ bezierDrawingState = "idle" /\ bezierDrawingState' = "definingP1"
              \/ /\ MouseUp
                 /\ bezierDrawingState = "definingP1" /\ bezierDrawingState' = "p1Defined"
              \/ /\ MouseDown
                 /\ bezierDrawingState = "p1Defined" /\ bezierDrawingState' = "definingP2"
              \/ /\ MouseUp
                 /\ bezierDrawingState = "definingP2" /\ bezierDrawingState' = "p1Defined"
                 /\ Len(elements') = Len(elements) + 1
              \/ /\ MouseUp
                 /\ bezierDrawingState = "definingP2" /\ bezierDrawingState' = "idle"
                 /\ \/ currentCurvePoints.p0.isNull
                    \/ currentCurvePoints.p1.isNull
                    \/ currentCurvePoints.p3.isNull
        /\ MouseMove => bezierDrawingState' = bezierDrawingState
        /\ currentTool # "pen" => bezierDrawingState' = bezierDrawingState
      ]_vars

\* after a segment was committed and the end point of the next one set, the
\* select tool was chosen and the pointer moved: the state is still definingP2
C32_Witness ==
    /\ currentTool = "select"
    /\ bezierDrawingState = "definingP2"
    /\ Len(elements) = 1 /\ elements[1].type = "bezier"
    /\ ~currentMousePosCartesian.isNull
    /\ currentMousePosCartesian # currentCurvePoints.p3

C34_ImageLoadState ==
    [][ \A i \in 1..Len(elements) :
            elements[i].type = "image" =>
                LET old == elements[i]
                    new == elements'[i]
                IN  /\ ~(new.loaded /\ new.error)
                    /\ (new.loaded \/ new.error) => (new.widthSet /\ new.heightSet)
                    /\ (ImageOnload /\ new # old) => (new.loaded /\ ~new.error)
                    /\ (ImageOnerror /\ new # old) =>
                          /\ new.error /\ ~new.loaded
                          /\ ~old.widthSet => new.width = 50
                          /\ ~old.heightSet => new.height = 50
                    /\ old.widthSet => (new.widthSet /\ new.width = old.width)
                    /\ old.heightSet => (new.heightSet /\ new.height = old.height)
      ]_vars

\* an image created with a width of 2 and no height failed to load and kept its
\* width, and an image created without a size loaded and took its natural size
C34_Witness ==
    /\ Len(elements) = 2
    /\ elements[1].type = "image" /\ elements[1].error /\ ~elements[1].loaded
    /\ elements[1].width = 2 /\ elements[1].height = 50
    /\ elements[2].type = "image" /\ elements[2].loaded /\ ~elements[2].error
    /\ elements[2].width = 4 /\ elements[2].height = 2

\* the image whose load or error callback has just run
Settled(i) ==
    /\ elements[i].type = "image"
    /\ elements'[i] # elements[i]
    /\ elements'[i].loaded \/ elements'[i].error

\* C35 as stated: when the load or error callback of an image completes, the
\* element is marked dirty after its dimensions are set (the region pushed is
\* that of its final bounds, and it is pushed whatever the size was before), and
\* the next tick repaints the element.
C35_ImageCallbackRepaints ==
    [][ /\ (ImageOnload \/ ImageOnerror) =>
              \A i \in 1..Len(elements) :
                  Settled(i) =>
                      /\ Len(dirtyRegions') = Len(dirtyRegions) + 1
                      /\ dirtyRegions'[Len(dirtyRegions')] =
                             DirtyRegionOf(canvas, selectedElement, elements'[i])
        /\ (Start \/ Animate) =>
              \A i \in 1..Len(elements) :
                  (/\ elements[i].type = "image"
                   /\ elements[i].loaded \/ elements[i].error
                   /\ \E k \in 1..Len(dirtyRegions) :
                          dirtyRegions[k] =
                              DirtyRegionOf(canvas, selectedElement, elements[i]))
                      => PaintedIn(tick', elements[i].id)
      ]_vars

\* C36: element identity and draw order.  After any sequence of addElement,
\* addText and addImage calls the ids of renderer.elements increase strictly
\* along the list (so they are pairwise distinct), nextElementId is the number
\* of elements created, and each call appends its element, with the id
\* nextElementId had, at the end of the list without reordering the others.
C36_IdsAndOrder ==
    [][ /\ \A i, j \in 1..Len(elements') :
              i < j => elements'[i].id < elements'[j].id
        /\ nextElementId' = Len(elements')
        /\ Len(elements') >= Len(elements)
        /\ \A i \in 1..Len(elements) : elements'[i].id = elements[i].id
        /\ (AddElement \/ AddText \/ AddImage) =>
              /\ Len(elements') = Len(elements) + 1
              /\ elements'[Len(elements')].id = nextElementId
              /\ SubSeq(elements', 1, Len(elements)) = elements
      ]_vars

\* a text and then an image were added
C36_Witness ==
    /\ Len(elements) = 2
    /\ elements[1].type = "text" /\ elements[1].id = 0
    /\ elements[2].type = "image" /\ elements[2].id = 1
    /\ nextElementId = 2

\* C37: at most one render loop runs per CartesianRenderer.  After any
\* sequence of start() and stop() calls at most one animation frame is pending;
\* start() while animationFrameId is set changes nothing; and after stop()
\* (animationFrameId null) no frame is pending, so that no draw() occurs until
\* start() is called again.
C37_OneRenderLoop ==
    [][ /\ framesPending' <= 1
        /\ (StartLoop /\ animationFrameId # NoFrame) => UNCHANGED vars
        /\ (constructed' /\ animationFrameId' = NoFrame) => framesPending' = 0
        /\ (constructed /\ animationFrameId = NoFrame) => ~Animate
      ]_vars

\* the loop was stopped and started again: a tick other than the first one was
\* a full redraw though nothing was marked, and one frame is pending
C37_Witness ==
    /\ app = "renderer"
    /\ tick.kind = "full"
    /\ ~tick.first
    /\ tick.marks = "none"
    /\ animationFrameId = "frame"
    /\ framesPending = 1

(***************************************************************************)
(* The region functions again (SpecMerge).                                 *)
(***************************************************************************)
\* C24: mergeRegions terminates.  Every pass of its loop that merges leaves
\* fewer regions than it started from, the loop ends with the first pass that
\* merges nothing, whose list is the result, and a list of n regions takes at
\* most n passes.
C24_MergeTerminates ==
    mpc = "merged" =>
        /\ Len(passes) <= Len(regions)
        /\ \A k \in 1..Len(passes) :
              /\ passes[k].didMerge => Len(passes[k].output) < Len(passes[k].input)
              /\ passes[k].didMerge <=> k < Len(passes)
        /\ IF Len(regions) <= 1
           THEN passes = <<>>
           ELSE Len(passes) >= 1 /\ passes[Len(passes)].output = merged

\* a list of three regions that takes three passes: one merge in each of the
\* first two, none in the third
C24_Witness ==
    /\ mpc = "merged"
    /\ Len(regions) = MaxRegions
    /\ Len(passes) = Len(regions)
    /\ Len(merged) = 1

\* the regions an array of references holds
Deref(heap, refs) == [i \in 1..Len(refs) |-> heap[refs[i]]]

\* C25: mergeRegions does not mutate its input.  After the call the input
\* array holds the same references, as many as before, and every region object
\* of it has the x, y, width and height it had, for lists of any length.
C25_InputUnchanged ==
    mpc = "merged" =>
        /\ objects.regions = [i \in 1..Len(regions) |-> i]
        /\ \A i \in 1..Len(regions) : objects.heap[i] = regions[i]
        /\ Deref(objects.heap, objects.merged) = merged

\* a call that combined the three regions of its input into one new object
C25_Witness ==
    /\ mpc = "merged"
    /\ Len(regions) = MaxRegions
    /\ Len(objects.merged) = 1
    /\ objects.merged[1] > Len(regions)
    /\ objects.heap[objects.merged[1]] \notin Range(regions)

\* C26: the two merge implementations are equivalent and the four copies of
\* regionsOverlap agree.  For every input list CanvasFrameworkBuilder.mergeRegions
\* returns the list dirtyRegions.mergeRegions returns, the same regions in the
\* same order; for every pair of regions the copies of regionsOverlap of
\* CanvasFrameworkBuilder, Rectangle and ImageElement give the answer of the copy
\* of dirtyRegions.js.
C26_CopiesAgree ==
    /\ mpc = "merged" => builderMerged = merged
    /\ mpc = "overlap" =>
          /\ overlapCopies.builder = overlap
          /\ overlapCopies.rectangle = overlap
          /\ overlapCopies.image = overlap

\* both merge functions turned three regions, two of which only touch, into two
C26_Witness ==
    /\ mpc = "merged"
    /\ Len(regions) = MaxRegions
    /\ Len(merged) = 2
    /\ Len(builderMerged) = 2
    /\ \E i, j \in 1..Len(regions) :
          i # j /\ regionsOverlap(regions[i], regions[j])
                /\ ~regionsOverlap_strict(regions[i], regions[j])

=============================================================================
